---- MODULE Spec2Model ----
(***************************************************************************)
(* Model of the live voice conversation component (LiveChat.tsx) and the  *)
(* service functions it calls (geminiService, found in src/constants.ts). *)
(*                                                                         *)
(* One React component instance is mounted at a time; switching tabs      *)
(* unmounts it (its cleanup effect runs stopRecording) and a later visit  *)
(* mounts a fresh instance with fresh state and fresh refs.  The refs of  *)
(* an unmounted instance stay reachable from the closures of its pending  *)
(* promises and session callbacks, so refs are kept per instance; React   *)
(* state setters of an unmounted instance have no effect.                 *)
(*                                                                         *)
(* Every invocation of startRecording is an "attempt" k.  The resources an *)
(* attempt creates (media stream, the two AudioContexts, the capture      *)
(* nodes, the live session) carry the attempt's number, 0 stands for null. *)
(* Time is counted in audio frames of the output context.                  *)
(***************************************************************************)
EXTENDS Integers, Sequences, FiniteSets, TLC

\* ------------------------------------------------------------- bounds ----
MaxStarts  == 2   \* invocations of startRecording
MaxInst    == 2   \* component instances (mounts)
MaxMsgs    == 1   \* server messages delivered when faults are injected
MaxTurnMsgs == 3  \* server messages delivered in fault-free sessions
MaxTime    == 2   \* ticks of an output AudioContext clock
MaxText    == 2   \* characters in a transcription buffer
MaxSources == 2   \* AudioBufferSourceNodes created
MaxBytes   == 4   \* bytes in an inbound audio chunk
MaxFaults  == 1   \* failures and transport events the environment injects
MaxSamples == 2   \* samples in a frame handed to createBlob
MaxPcmBytes == 2  \* bytes in a PCM payload handed to convertPcmToWavBlob
MaxFrames  == 3   \* frames the script processors deliver
MaxPad     == 1   \* blanks before and after a response text
MaxChecks  == 2   \* invocations of handleCheckKey
MaxRestarts == 3  \* invocations of startRecording when only text is exchanged
MaxExchanges == 2 \* messages sent by one instance of GeneralChat

\* ------------------------------------------------- program constants ----
INPUT_AUDIO_SAMPLE_RATE  == 16000
OUTPUT_AUDIO_SAMPLE_RATE == 24000
AUDIO_NUM_CHANNELS == 1
BYTES_PER_SAMPLE   == 2

Attempts  == 1..MaxRestarts
Instances == 1..MaxInst
USER  == "user"
MODEL == "model"

\* A string is a sequence of one-character strings.
Chars  == {"a", " "}
Deltas == {<<>>} \cup {<<c>> : c \in Chars}

\* String.prototype.trim() yields a non-empty (truthy) string
trim(s) == \E n \in 1..Len(s) : s[n] # " "

Max(a, b) == IF a >= b THEN a ELSE b

\* LiveServerMessage.  audio is the byte length of
\* serverContent.modelTurn.parts[0].inlineData.data after base64 decoding
\* (0: the field is absent); a transcription of <<>> stands for an absent
\* outputTranscription / inputTranscription object.
LiveServerMessage ==
  [audio : 0..MaxBytes, outputTranscription : Deltas, inputTranscription : Deltas,
   turnComplete : BOOLEAN, interrupted : BOOLEAN]

\* The number of parts a message carries.
Parts(m) ==
  (IF m.audio # 0 THEN 1 ELSE 0) + (IF m.outputTranscription # <<>> THEN 1 ELSE 0)
  + (IF m.inputTranscription # <<>> THEN 1 ELSE 0)
  + (IF m.turnComplete THEN 1 ELSE 0) + (IF m.interrupted THEN 1 ELSE 0)

\* The messages the endpoint sends: one part each (an audio part of one
\* byte, or of whole samples), or a model-turn audio part together with its
\* transcription, or both transcriptions.
Messages ==
  {m \in LiveServerMessage :
     \/ Parts(m) = 1 /\ (m.audio <= 1 \/ m.audio % BYTES_PER_SAMPLE = 0)
     \/ /\ Parts(m) = 2
        /\ m.outputTranscription = <<"a">>
        /\ m.audio = BYTES_PER_SAMPLE \/ m.inputTranscription = <<"a">>}

NoMsg == [audio |-> 0, outputTranscription |-> <<>>, inputTranscription |-> <<>>,
          turnComplete |-> FALSE, interrupted |-> FALSE]

VARIABLES
  \* React state of the mounted instance
  isRecording, isLoading, error, chatMessages,
  currentInputTranscription, currentOutputTranscription,
  \* refs, one per component instance
  audioContextRef, outputAudioContextRef, scriptProcessorRef,
  mediaStreamSourceRef, liveSessionRef, mediaStreamRef,
  nextStartTimeRef, playbackSourcesRef,
  \* component instances and invocations of startRecording
  inst, attempts, owner, startPc, closure,
  \* the browser and the remote endpoint
  conn, errored, micLive, sourceConnected, processorConnected,
  inputCtxOpen, outputCtxOpen, currentTime,
  sources, stoppedSources, endedSources, pendingDecodes, delivered, faults,
  \* history: the attempts whose open was pending when their instance ran
  \* stopRecording, the latest interruption, the last step taken
  abandoned, interruption, last,
  \* a call of one of the audio utility functions: its arguments, its result
  callIn, callOut,
  \* the capture pipeline: the number of frames the script processors have
  \* delivered, the frames handed to a session's transport
  captured, sent,
  \* ApiKeyChecker: its React state, the position of handleCheckKey, the
  \* environment (window.aistudio present, process.env.API_KEY set, a key
  \* selected), the checks started and what the latest check returned
  apiKeyAvailable, keyError, keyIsLoading, keyPc, aistudio, apiKey, hasKey,
  checks, returned,
  \* StoryGenerator: its React state
  transcriptContent, transcriptFileName, generatedOutput, audioPlayback,
  storyIsLoading, storyError, mode, analysisQuery,
  \* FileUpload: its React state and the FileReader at work
  loading, uploadError, reader,
  \* the remote call StoryGenerator awaits, the last step of the application
  request, event,
  \* GeneralChat: its React state, the instance that is mounted, the calls
  \* of generateContentWithSearch that have not settled
  messages, input, chatIsLoading, chatError, chatInst, searches

uiVars  == <<isRecording, isLoading, error, chatMessages,
             currentInputTranscription, currentOutputTranscription>>
refVars == <<audioContextRef, outputAudioContextRef, scriptProcessorRef,
             mediaStreamSourceRef, liveSessionRef, mediaStreamRef,
             nextStartTimeRef, playbackSourcesRef>>
attVars == <<inst, attempts, owner, startPc, closure>>
envVars == <<conn, errored, micLive, sourceConnected, processorConnected,
             inputCtxOpen, outputCtxOpen, currentTime,
             sources, stoppedSources, endedSources, pendingDecodes, delivered,
             faults>>
hisVars == <<abandoned, interruption>>
liveVars == <<uiVars, refVars, attVars, envVars, hisVars, last>>
callVars == <<callIn, callOut>>
frameVars == <<captured, sent>>
keyVars == <<apiKeyAvailable, keyError, keyIsLoading, keyPc, aistudio, apiKey,
             hasKey, checks, returned>>
storyVars == <<transcriptContent, transcriptFileName, generatedOutput,
               audioPlayback, storyIsLoading, storyError, mode, analysisQuery,
               request>>
uploadVars == <<loading, uploadError, reader>>
chatVars == <<messages, input, chatIsLoading, chatError, chatInst, searches>>
appVars == <<keyVars, storyVars, uploadVars, chatVars, event>>
vars    == <<liveVars, callVars, frameVars, appVars>>

\* the steps that run stopRecording
StopOps == {"clickStop", "unmount", "onerror"}

\* The record of a step: the operation, the attempt or session k it belongs
\* to, the instance i that ran it, the message it handled, whether a
\* transcription buffer held text before it, and whether it is a
\* stopRecording that directly follows a stopRecording of the same instance.
Step(op, k, m) ==
  LET i == IF k \in Attempts THEN owner[k] ELSE inst IN
  [op |-> op, k |-> k, i |-> i, m |-> m, wasClean |-> TRUE,
   hadText |-> op = "handleLiveMessage" /\
               (currentInputTranscription # <<>> \/ currentOutputTranscription # <<>>),
   again |-> op \in StopOps /\ last.op \in StopOps /\ last.i = i]

InitLive ==
  /\ isRecording = FALSE
  /\ isLoading = FALSE
  /\ error = "null"
  /\ chatMessages = <<>>
  /\ currentInputTranscription = <<>>
  /\ currentOutputTranscription = <<>>
  /\ audioContextRef = [i \in Instances |-> 0]
  /\ outputAudioContextRef = [i \in Instances |-> 0]
  /\ scriptProcessorRef = [i \in Instances |-> 0]
  /\ mediaStreamSourceRef = [i \in Instances |-> 0]
  /\ liveSessionRef = [i \in Instances |-> 0]
  /\ mediaStreamRef = [i \in Instances |-> 0]
  /\ nextStartTimeRef = [i \in Instances |-> 0]
  /\ playbackSourcesRef = [i \in Instances |-> {}]
  /\ inst = 1
  /\ attempts = 0
  /\ owner = [k \in Attempts |-> 0]
  /\ startPc = [k \in Attempts |-> "none"]
  /\ closure = [k \in Attempts |->
                 [currentInputTranscription |-> <<>>,
                  currentOutputTranscription |-> <<>>, isRecording |-> FALSE]]
  /\ conn = [k \in Attempts |-> "none"]
  /\ errored = {}
  /\ micLive = {}
  /\ sourceConnected = {}
  /\ processorConnected = {}
  /\ inputCtxOpen = {}
  /\ outputCtxOpen = {}
  /\ currentTime = 0
  /\ sources = <<>>
  /\ stoppedSources = {}
  /\ endedSources = {}
  /\ pendingDecodes = <<>>
  /\ delivered = 0
  /\ faults = 0
  /\ abandoned = {}
  /\ interruption = [inst |-> 0, len |-> 0, clock |-> 0]
  /\ last = [op |-> "init", k |-> 0, i |-> 1, m |-> NoMsg, wasClean |-> TRUE,
             hadText |-> FALSE, again |-> FALSE]

\* no utility function has been called
NoCall == [fn |-> "none"]

\* no frame has been captured
InitFrames == captured = 0 /\ sent = <<>>

\* An optional value (null or undefined when absent) is a sequence of at
\* most one element.
None == <<>>
Some(x) == <<x>>

\* ApiKeyChecker as constructed (useState initial values), its mount effect
\* not yet run, in an environment e
InitKey(e) ==
  /\ apiKeyAvailable = "null"
  /\ keyError = "null"
  /\ keyIsLoading = TRUE
  /\ keyPc = "mount"
  /\ aistudio = e.aistudio
  /\ apiKey = e.apiKey
  /\ hasKey = e.hasKey
  /\ checks = 0
  /\ returned = "none"

\* ApiKeyChecker after a check that returned true in an environment without
\* window.aistudio and with process.env.API_KEY set
GateOpen ==
  /\ apiKeyAvailable = "true"
  /\ keyError = "null"
  /\ keyIsLoading = FALSE
  /\ keyPc = "done"
  /\ aistudio = FALSE
  /\ apiKey = TRUE
  /\ hasKey = FALSE
  /\ checks = 1
  /\ returned = "true"

\* StoryGenerator and FileUpload as constructed
InitStory ==
  /\ transcriptContent = None
  /\ transcriptFileName = None
  /\ generatedOutput = None
  /\ audioPlayback = None
  /\ storyIsLoading = FALSE
  /\ storyError = "null"
  /\ mode = "story"
  /\ analysisQuery = <<>>
  /\ request = None
  /\ loading = FALSE
  /\ uploadError = "null"
  /\ reader = None
  /\ event = [op |-> "none", file |-> None]

\* GeneralChat as constructed
InitChat ==
  /\ messages = <<>>
  /\ input = <<>>
  /\ chatIsLoading = FALSE
  /\ chatError = "null"
  /\ chatInst = 1
  /\ searches = {}

Init ==
  /\ InitLive /\ callIn = NoCall /\ callOut = <<>> /\ InitFrames /\ GateOpen
  /\ InitStory /\ InitChat

\* The environment injects one more failure or transport event.
Fault == faults < MaxFaults /\ faults' = faults + 1

\* A state setter of instance i takes effect only while i is mounted.
Mounted(i) == i = inst


\* the invocations of startRecording of instance i that are suspended at the
\* await of startLiveSession
OpenPending(i) ==
  {k \in Attempts : owner[k] = i /\ startPc[k] = "awaitOpen"}

\* ------------------------------------------------------ stopRecording ----
\* (mutant: the tracks are left running)
stopTracks_keepRunning(i) == micLive

\* track.stop() on every track of the stream the ref holds
stopTracks(i) == micLive \ {mediaStreamRef[i]}

\* mediaStreamSourceRef.current.disconnect()
disconnectSource(i) == sourceConnected \ {mediaStreamSourceRef[i]}

\* scriptProcessorRef.current.disconnect()
disconnectProcessor(i) == processorConnected \ {scriptProcessorRef[i]}

\* audioContextRef.current.close()
closeInputContext(i) == inputCtxOpen \ {audioContextRef[i]}

\* (mutant: the output context is not closed)
closeOutputContext_leak(i) == outputCtxOpen

\* outputAudioContextRef.current.close()
closeOutputContext(i) == outputCtxOpen \ {outputAudioContextRef[i]}

\* source.stop() for every source of playbackSourcesRef, inside the
\* if (outputAudioContextRef.current) block
stopPlayback(i) ==
  IF outputAudioContextRef[i] # 0
  THEN stoppedSources \cup playbackSourcesRef[i] ELSE stoppedSources

\* playbackSourcesRef.current.clear(), inside the same block
clearPlayback(i) ==
  IF outputAudioContextRef[i] # 0 THEN {} ELSE playbackSourcesRef[i]

\* nextStartTimeRef.current = 0, inside the same block
resetClock(i) ==
  IF outputAudioContextRef[i] # 0 THEN 0 ELSE nextStartTimeRef[i]

\* liveSessionRef.current.close(): an open connection starts closing
closeSession(i) ==
  [k \in Attempts |->
     IF k = liveSessionRef[i] /\ conn[k] = "open" THEN "closing" ELSE conn[k]]

\* stopRecording, run by instance i: everything but the effect of
\* liveSessionRef.current.close() on the connections
releaseAll(i) ==
  /\ micLive' = stopTracks(i)
  /\ mediaStreamRef' = [mediaStreamRef EXCEPT ![i] = 0]
  /\ sourceConnected' = disconnectSource(i)
  /\ mediaStreamSourceRef' = [mediaStreamSourceRef EXCEPT ![i] = 0]
  /\ processorConnected' = disconnectProcessor(i)
  /\ scriptProcessorRef' = [scriptProcessorRef EXCEPT ![i] = 0]
  /\ inputCtxOpen' = closeInputContext(i)
  /\ audioContextRef' = [audioContextRef EXCEPT ![i] = 0]
  /\ stoppedSources' = stopPlayback(i)
  /\ playbackSourcesRef' = [playbackSourcesRef EXCEPT ![i] = clearPlayback(i)]
  /\ nextStartTimeRef' = [nextStartTimeRef EXCEPT ![i] = resetClock(i)]
  /\ outputCtxOpen' = closeOutputContext(i)
  /\ outputAudioContextRef' = [outputAudioContextRef EXCEPT ![i] = 0]
  /\ liveSessionRef' = [liveSessionRef EXCEPT ![i] = 0]
  /\ isRecording' = IF Mounted(i) THEN FALSE ELSE isRecording
  /\ isLoading' = IF Mounted(i) THEN FALSE ELSE isLoading
  /\ abandoned' = abandoned \cup OpenPending(i)

\* the whole of stopRecording, run by instance i
stopRecording(i) ==
  /\ releaseAll(i)
  /\ conn' = closeSession(i)

\* the variables stopRecording leaves alone
stopFrame ==
  <<chatMessages, currentInputTranscription, currentOutputTranscription,
    attempts, owner, startPc, closure, errored, currentTime, sources,
    endedSources, pendingDecodes, delivered, interruption>>

\* The record/stop button while it shows "stop": onClick = stopRecording,
\* enabled unless isLoading.
clickStop ==
  /\ isRecording /\ ~isLoading
  /\ stopRecording(inst)
  /\ last' = Step("clickStop", 0, NoMsg)
  /\ UNCHANGED <<callVars, frameVars, appVars>>
  /\ UNCHANGED <<stopFrame, inst, error, faults>>

\* The tab is switched away: the cleanup effect of the instance runs
\* stopRecording; the next visit mounts a fresh instance (useState and
\* useRef initial values).
unmount ==
  /\ inst < MaxInst
  /\ stopRecording(inst)
  /\ inst' = inst + 1
  /\ error' = "null"
  /\ chatMessages' = <<>>
  /\ currentInputTranscription' = <<>>
  /\ currentOutputTranscription' = <<>>
  /\ last' = Step("unmount", 0, NoMsg)
  /\ UNCHANGED <<callVars, frameVars, appVars>>
  /\ UNCHANGED <<attempts, owner, startPc, closure, errored, currentTime,
                 sources, endedSources, pendingDecodes, delivered, faults,
                 interruption>>

\* ----------------------------------------------------- startRecording ----
\* The record/stop button while it shows "start": the synchronous prefix of
\* startRecording up to the await of getUserMedia.  The callbacks handed to
\* the session later are the closures of this render.
startRecording(limit) ==
  /\ ~isRecording /\ ~isLoading
  /\ attempts < limit
  /\ attempts' = attempts + 1
  /\ owner' = [owner EXCEPT ![attempts + 1] = inst]
  /\ startPc' = [startPc EXCEPT ![attempts + 1] = "awaitMic"]
  /\ closure' = [closure EXCEPT ![attempts + 1] =
                   [currentInputTranscription |-> currentInputTranscription,
                    currentOutputTranscription |-> currentOutputTranscription,
                    isRecording |-> isRecording]]
  /\ isLoading' = TRUE
  /\ error' = "null"
  /\ chatMessages' = <<>>
  /\ currentInputTranscription' = <<>>
  /\ currentOutputTranscription' = <<>>
  /\ last' = [Step("clickStart", attempts + 1, NoMsg) EXCEPT !.i = inst]
  /\ UNCHANGED <<callVars, frameVars, appVars>>
  /\ UNCHANGED <<isRecording, refVars, inst, envVars, hisVars>>

clickStart == startRecording(MaxStarts)

\* The catch and finally blocks of startRecording, run by attempt k; tracks
\* is the set of live microphone tracks when the catch block is entered and
\* ref the stream mediaStreamRef holds then.
catchTracks(tracks, ref) == tracks \ {ref}

\* (mutant: the finally block leaves isLoading as it is)
catchFinally_loading(k) ==
  /\ error' = IF Mounted(owner[k]) THEN "start" ELSE error
  /\ isRecording' = IF Mounted(owner[k]) THEN FALSE ELSE isRecording
  /\ isLoading' = isLoading
  /\ startPc' = [startPc EXCEPT ![k] = "failed"]

catchFinally(k) ==
  /\ error' = IF Mounted(owner[k]) THEN "start" ELSE error
  /\ isRecording' = IF Mounted(owner[k]) THEN FALSE ELSE isRecording
  /\ isLoading' = IF Mounted(owner[k]) THEN FALSE ELSE isLoading
  /\ startPc' = [startPc EXCEPT ![k] = "failed"]

\* getUserMedia rejects (permission denied, no device).
getUserMediaRejected(k) ==
  /\ Fault
  /\ startPc[k] = "awaitMic"
  /\ micLive' = catchTracks(micLive, mediaStreamRef[owner[k]])
  /\ catchFinally(k)
  /\ last' = Step("getUserMediaRejected", k, NoMsg)
  /\ UNCHANGED <<callVars, frameVars, appVars>>
  /\ UNCHANGED <<chatMessages, currentInputTranscription, currentOutputTranscription,
                 refVars, inst, attempts, owner, closure,
                 conn, errored, sourceConnected, processorConnected,
                 inputCtxOpen, outputCtxOpen, currentTime, sources,
                 stoppedSources, endedSources, pendingDecodes, delivered, hisVars>>

\* The stages of the try block after getUserMedia at which an exception can
\* be thrown: constructing the input context, constructing the output
\* context, creating the script processor; "none": the block reaches the
\* await of startLiveSession.
Stages == {"outctx", "none"}
Reached(stage, s) ==
  CASE s = "inctx"  -> stage \in {"outctx", "nodes", "none"}
    [] s = "outctx" -> stage \in {"nodes", "none"}
    [] s = "source" -> stage \in {"nodes", "none"}
    [] s = "nodes"  -> stage = "none"

\* getUserMedia resolves: the try block runs on from line 124.
getUserMediaResolved(k, stage) ==
  LET i == owner[k] IN
  /\ startPc[k] = "awaitMic"
  /\ IF stage = "none" THEN UNCHANGED faults ELSE Fault
  /\ mediaStreamRef' = [mediaStreamRef EXCEPT ![i] = k]
  /\ audioContextRef' =
       [audioContextRef EXCEPT ![i] = IF Reached(stage, "inctx") THEN k ELSE @]
  /\ inputCtxOpen' =
       IF Reached(stage, "inctx") THEN inputCtxOpen \cup {k} ELSE inputCtxOpen
  /\ outputAudioContextRef' =
       [outputAudioContextRef EXCEPT ![i] = IF Reached(stage, "outctx") THEN k ELSE @]
  /\ outputCtxOpen' =
       IF Reached(stage, "outctx") THEN outputCtxOpen \cup {k} ELSE outputCtxOpen
  /\ mediaStreamSourceRef' =
       [mediaStreamSourceRef EXCEPT ![i] = IF Reached(stage, "source") THEN k ELSE @]
  /\ scriptProcessorRef' =
       [scriptProcessorRef EXCEPT ![i] = IF Reached(stage, "nodes") THEN k ELSE @]
  /\ sourceConnected' =
       IF Reached(stage, "nodes") THEN sourceConnected \cup {k} ELSE sourceConnected
  /\ processorConnected' =
       IF Reached(stage, "nodes") THEN processorConnected \cup {k}
       ELSE processorConnected
  /\ IF stage = "none"
     THEN /\ conn' = [conn EXCEPT ![k] = "connecting"]
          /\ startPc' = [startPc EXCEPT ![k] = "awaitOpen"]
          /\ micLive' = micLive \cup {k}
          /\ UNCHANGED <<error, isRecording, isLoading>>
     ELSE /\ micLive' = catchTracks(micLive \cup {k}, k)
          /\ catchFinally(k)
          /\ UNCHANGED conn
  /\ last' = Step("getUserMediaResolved", k, NoMsg)
  /\ UNCHANGED <<callVars, frameVars, appVars>>
  /\ UNCHANGED <<chatMessages, currentInputTranscription, currentOutputTranscription,
                 liveSessionRef, nextStartTimeRef, playbackSourcesRef,
                 inst, attempts, owner, closure, errored, currentTime,
                 sources, stoppedSources, endedSources, pendingDecodes, delivered, hisVars>>

\* startLiveSession resolves: lines 180-181 and the finally block.  Nothing
\* checks that the attempt is still wanted.
installSession(k, ref) == k
recordingAfterOpen(k, rec) == TRUE

startLiveSessionResolved(k) ==
  LET i == owner[k] IN
  /\ startPc[k] = "awaitOpen"
  /\ conn[k] = "connecting"
  /\ k \notin errored
  /\ conn' = [conn EXCEPT ![k] = "open"]
  /\ liveSessionRef' = [liveSessionRef EXCEPT ![i] = installSession(k, @)]
  /\ isRecording' = IF Mounted(i) THEN recordingAfterOpen(k, isRecording) ELSE isRecording
  /\ isLoading' = IF Mounted(i) THEN FALSE ELSE isLoading
  /\ startPc' = [startPc EXCEPT ![k] = "done"]
  /\ last' = Step("startLiveSessionResolved", k, NoMsg)
  /\ UNCHANGED <<callVars, frameVars, appVars>>
  /\ UNCHANGED <<error, chatMessages, currentInputTranscription,
                 currentOutputTranscription,
                 audioContextRef, outputAudioContextRef, scriptProcessorRef,
                 mediaStreamSourceRef, mediaStreamRef, nextStartTimeRef,
                 playbackSourcesRef, inst, attempts, owner, closure,
                 errored, micLive, sourceConnected, processorConnected,
                 inputCtxOpen, outputCtxOpen, currentTime, sources,
                 stoppedSources, endedSources, pendingDecodes, delivered, faults, hisVars>>

\* startLiveSession rejects (getGeminiClient throws for a missing API key,
\* or the handshake fails): the catch and finally blocks.
startLiveSessionRejected(k) ==
  /\ Fault
  /\ startPc[k] = "awaitOpen"
  /\ conn[k] = "connecting"
  /\ conn' = [conn EXCEPT ![k] = "closed"]
  /\ micLive' = catchTracks(micLive, mediaStreamRef[owner[k]])
  /\ catchFinally(k)
  /\ last' = Step("startLiveSessionRejected", k, NoMsg)
  /\ UNCHANGED <<callVars, frameVars, appVars>>
  /\ UNCHANGED <<chatMessages, currentInputTranscription, currentOutputTranscription,
                 refVars, inst, attempts, owner, closure,
                 errored, sourceConnected, processorConnected,
                 inputCtxOpen, outputCtxOpen, currentTime, sources,
                 stoppedSources, endedSources, pendingDecodes, delivered, hisVars>>

\* ------------------------------------------------- session callbacks ----
\* onerror of session k: setError, then stopRecording.  A transport reports
\* an error at most once, while connecting, open or closing; a connection
\* that reported an error while connecting never opens.
onerror(k) ==
  /\ Fault
  /\ conn[k] \in {"connecting", "open", "closing"}
  /\ k \notin errored
  /\ errored' = errored \cup {k}
  /\ error' = IF Mounted(owner[k]) THEN "session" ELSE error
  /\ stopRecording(owner[k])
  /\ last' = Step("onerror", k, NoMsg)
  /\ UNCHANGED <<callVars, frameVars, appVars>>
  /\ UNCHANGED <<chatMessages, currentInputTranscription, currentOutputTranscription,
                 inst, attempts, owner, startPc, closure, currentTime, sources,
                 endedSources, pendingDecodes, delivered, interruption>>

\* the test "if (isRecording)" of onclose reads the isRecording of the
\* render whose startRecording created the callback
oncloseStops(k) == closure[k].isRecording

\* onclose of session k: the server closed an open connection (cleanly or
\* not), or the close stopRecording asked for completed (cleanly).
onclose(k, wasClean) ==
  /\ \/ conn[k] = "open" /\ Fault
     \/ conn[k] = "closing" /\ wasClean /\ UNCHANGED faults
  /\ error' = IF ~wasClean /\ Mounted(owner[k]) THEN "close" ELSE error
  /\ IF oncloseStops(k)
     THEN /\ releaseAll(owner[k])
          /\ conn' = [closeSession(owner[k]) EXCEPT ![k] = "closed"]
     ELSE /\ conn' = [conn EXCEPT ![k] = "closed"]
          /\ UNCHANGED <<isRecording, isLoading, refVars, micLive, sourceConnected,
                         processorConnected, inputCtxOpen, outputCtxOpen,
                         stoppedSources, abandoned>>
  /\ last' = [Step("onclose", k, NoMsg) EXCEPT !.wasClean = wasClean]
  /\ UNCHANGED <<callVars, frameVars, appVars>>
  /\ UNCHANGED <<chatMessages, currentInputTranscription, currentOutputTranscription,
                 inst, attempts, owner, startPc, closure, errored, currentTime,
                 sources, endedSources, pendingDecodes, delivered, interruption>>

\* -------------------------------------------------- handleLiveMessage ----
\* (mutant: every chunk decodes)
decodable_any(bytes) == TRUE

\* decodeAudioData: new Int16Array(data.buffer) throws unless the byte length
\* is a multiple of the sample size
decodable(bytes) == bytes % BYTES_PER_SAMPLE = 0

\* frameCount of the decoded buffer = its duration in output frames
frameCount(bytes) == (bytes \div BYTES_PER_SAMPLE) \div AUDIO_NUM_CHANNELS

\* lines 78-82: "if (outputTranscription) ... else if (inputTranscription)"
appendOutput(m, buf) ==
  IF m.outputTranscription # <<>> THEN buf \o m.outputTranscription ELSE buf

appendInput(m, buf) ==
  IF m.outputTranscription = <<>> /\ m.inputTranscription # <<>>
  THEN buf \o m.inputTranscription ELSE buf

\* (mutant: the model's message is appended before the user's)
finalized_modelFirst(k, m) ==
  IF m.turnComplete
  THEN (IF trim(closure[k].currentOutputTranscription)
        THEN <<[role |-> MODEL, content |-> closure[k].currentOutputTranscription]>>
        ELSE <<>>)
       \o
       (IF trim(closure[k].currentInputTranscription)
        THEN <<[role |-> USER, content |-> closure[k].currentInputTranscription]>>
        ELSE <<>>)
  ELSE <<>>

\* lines 85-99: the messages a turn-complete appends; the handler of session
\* k reads currentInputTranscription and currentOutputTranscription from the
\* closure of the render that started the session
finalized(k, m) ==
  IF m.turnComplete
  THEN (IF trim(closure[k].currentInputTranscription)
        THEN <<[role |-> USER, content |-> closure[k].currentInputTranscription]>>
        ELSE <<>>)
       \o
       (IF trim(closure[k].currentOutputTranscription)
        THEN <<[role |-> MODEL, content |-> closure[k].currentOutputTranscription]>>
        ELSE <<>>)
  ELSE <<>>

\* line 100: clearCurrentTranscriptions() on turn-complete
afterTurnComplete(m, buf) == IF m.turnComplete THEN <<>> ELSE buf

\* (mutant: the interruption leaves the transcriptions)
afterInterrupted_keep(m, buf) == buf

\* line 111: clearCurrentTranscriptions() on interruption
afterInterrupted(m, buf) == IF m.interrupted THEN <<>> ELSE buf

\* lines 106-109: every source of the set is stopped and deleted
interruptedStopped(m, ps, stopped) == IF m.interrupted THEN stopped \cup ps ELSE stopped
interruptedSources(m, ps) == IF m.interrupted THEN {} ELSE ps

\* line 110
interruptedClock(m, ns) == IF m.interrupted THEN 0 ELSE ns

\* (mutant: the clock value is taken without the max)
startAt_now(ns, now) == now

\* line 54
startAt(ns, now) == Max(ns, now)

\* The part of handleLiveMessage after the audio block (lines 77-112), run
\* for message m of session k with ns and ps the values of nextStartTimeRef
\* and playbackSourcesRef the audio block left and n the number of sources
\* created so far.
afterAudio(k, m, ns, ps, n) ==
  LET i == owner[k] IN
  /\ nextStartTimeRef' = [nextStartTimeRef EXCEPT ![i] = interruptedClock(m, ns)]
  /\ playbackSourcesRef' = [playbackSourcesRef EXCEPT ![i] = interruptedSources(m, ps)]
  /\ stoppedSources' = interruptedStopped(m, ps, stoppedSources)
  /\ interruption' =
       IF m.interrupted
       THEN [inst |-> i, len |-> n, clock |-> ns] ELSE interruption
  /\ IF Mounted(i)
     THEN /\ currentOutputTranscription' =
               afterInterrupted(m, afterTurnComplete(m,
                  appendOutput(m, currentOutputTranscription)))
          /\ currentInputTranscription' =
               afterInterrupted(m, afterTurnComplete(m,
                  appendInput(m, currentInputTranscription)))
          /\ chatMessages' = chatMessages \o finalized(k, m)
     ELSE UNCHANGED <<currentOutputTranscription, currentInputTranscription,
                      chatMessages>>
  /\ last' = Step("handleLiveMessage", k, m)
  /\ UNCHANGED <<callVars, frameVars, appVars>>

\* onmessage of session k delivers m.  With an audio part and an output
\* context the handler runs to the await of decodeAudioData; otherwise it
\* runs to its end.
onmessage(k, m) ==
  LET i == owner[k] IN
  /\ conn[k] = "open"
  /\ Mounted(i) =>
       /\ Len(appendOutput(m, currentOutputTranscription)) <= MaxText
       /\ Len(appendInput(m, currentInputTranscription)) <= MaxText
  /\ delivered' = delivered + 1
  /\ UNCHANGED faults
  /\ IF m.audio # 0 /\ outputAudioContextRef[i] # 0
     THEN /\ Len(sources) + Len(pendingDecodes) < MaxSources
          /\ nextStartTimeRef' =
               [nextStartTimeRef EXCEPT ![i] =
                  startAt(@, currentTime)]
          /\ pendingDecodes' =
               Append(pendingDecodes,
                      [k |-> k, m |-> m, ctx |-> outputAudioContextRef[i],
                       now |-> currentTime])
          /\ last' = Step("awaitDecode", k, m)
          /\ UNCHANGED <<callVars, frameVars, appVars>>
          /\ UNCHANGED <<chatMessages, currentInputTranscription,
                         currentOutputTranscription, playbackSourcesRef,
                         stoppedSources, interruption>>
     ELSE /\ afterAudio(k, m, nextStartTimeRef[i], playbackSourcesRef[i], Len(sources))
          /\ UNCHANGED pendingDecodes
  /\ UNCHANGED <<isRecording, isLoading, error,
                 audioContextRef, outputAudioContextRef, scriptProcessorRef,
                 mediaStreamSourceRef, liveSessionRef, mediaStreamRef,
                 attVars, conn, errored, micLive, sourceConnected,
                 processorConnected, inputCtxOpen, outputCtxOpen, currentTime,
                 sources, endedSources, abandoned>>

\* lines 62-71: the source scheduled for a decoded buffer
scheduled(p, ns) ==
  [inst |-> owner[p.k], ctx |-> p.ctx, when |-> ns, at |-> currentTime,
   dur |-> frameCount(p.m.audio), now |-> p.now]

\* line 70
advance(ns, dur) == ns + dur

\* The oldest pending decodeAudioData settles and its handler runs on: lines
\* 62-71 when it resolved, the catch block when it rejected, then lines
\* 77-112.
decodeSettled ==
  /\ pendingDecodes # <<>>
  /\ LET p == Head(pendingDecodes)
         i == owner[p.k]
         ns == nextStartTimeRef[i]
     IN
     /\ pendingDecodes' = Tail(pendingDecodes)
     /\ IF decodable(p.m.audio)
        THEN /\ sources' = Append(sources, scheduled(p, ns))
             /\ afterAudio(p.k, p.m, advance(ns, frameCount(p.m.audio)),
                           playbackSourcesRef[i] \cup {Len(sources) + 1},
                           Len(sources) + 1)
        ELSE /\ UNCHANGED sources
             /\ afterAudio(p.k, p.m, ns, playbackSourcesRef[i], Len(sources))
  /\ UNCHANGED <<isRecording, isLoading, error,
                 audioContextRef, outputAudioContextRef, scriptProcessorRef,
                 mediaStreamSourceRef, liveSessionRef, mediaStreamRef,
                 attVars, conn, errored, micLive, sourceConnected,
                 processorConnected, inputCtxOpen, outputCtxOpen, currentTime,
                 endedSources, delivered, faults, abandoned>>

\* ------------------------------------------------------ the audio clock ----
\* The audio hardware clock advances; currentTime of every open output
\* context advances with it.
tick ==
  /\ outputCtxOpen # {}
  /\ currentTime < MaxTime
  /\ currentTime' = currentTime + 1
  /\ last' = Step("tick", 0, NoMsg)
  /\ UNCHANGED <<callVars, frameVars, appVars>>
  /\ UNCHANGED <<uiVars, refVars, attVars, conn, errored, micLive,
                 sourceConnected, processorConnected, inputCtxOpen, outputCtxOpen,
                 sources, stoppedSources, endedSources, pendingDecodes, delivered, faults, hisVars>>

\* start(when) of a source begins playback at when, or at once if when has
\* passed
playsFrom(s) == Max(sources[s].when, sources[s].at)
playsUntil(s) == playsFrom(s) + sources[s].dur

\* (mutant: the listener leaves the source in the set)
afterEnded_kept(ps, s) == ps

\* lines 66-68: playbackSourcesRef.current.delete(source)
afterEnded(ps, s) == ps \ {s}

\* a source plays to its end: its 'ended' listener deletes it from the set
ended(s) ==
  /\ s \in 1..Len(sources)
  /\ s \notin endedSources \cup stoppedSources
  /\ sources[s].ctx \in outputCtxOpen
  /\ currentTime >= playsUntil(s)
  /\ endedSources' = endedSources \cup {s}
  /\ playbackSourcesRef' =
       [playbackSourcesRef EXCEPT ![sources[s].inst] = afterEnded(@, s)]
  /\ last' = Step("ended", 0, NoMsg)
  /\ UNCHANGED <<callVars, frameVars, appVars>>
  /\ UNCHANGED <<uiVars, audioContextRef, outputAudioContextRef, scriptProcessorRef,
                 mediaStreamSourceRef, liveSessionRef, mediaStreamRef,
                 nextStartTimeRef, attVars, conn, errored, micLive,
                 sourceConnected, processorConnected, inputCtxOpen, outputCtxOpen,
                 currentTime, sources, stoppedSources, pendingDecodes, delivered, faults, hisVars>>

\* --------------------------------------------------- capture pipeline ----
\* line 148: if (liveSessionRef.current)
handedOver(ref) == ref # 0

\* (mutant: the frame is sent twice)
transmitted_twice(ref, frame, log) ==
  log \o <<[frame |-> frame, session |-> ref], [frame |-> frame, session |-> ref]>>

\* sendRealtimeInput: session.sendRealtimeInput({ media }) is called before
\* the async function returns; the transport sends the frame at once while
\* the connection is open and discards it otherwise
transmitted(ref, frame, log) ==
  IF ref \in Attempts /\ conn[ref] = "open"
  THEN Append(log, [frame |-> frame, session |-> ref]) ELSE log

\* the send fails: the handle is of a session whose connection is not open
rejected(ref) == ~(ref \in Attempts /\ conn[ref] = "open")

\* (mutant: the handler of a failed send stops the recording)
catchSend_stops(rec) == FALSE

\* lines 149-152: the handler of a failed send logs the error; isRecording
\* and everything else stay as they are
catchSend(rec) == rec

\* onaudioprocess of the script processor of attempt p: the processor is
\* connected to a connected source in an input context that is not closed.
\* The frame goes through createBlob and, if the ref of the instance holds
\* a session, to sendRealtimeInput; nothing keeps it otherwise.
onaudioprocess(p) ==
  LET i == owner[p] IN
  /\ p \in processorConnected \cap sourceConnected \cap inputCtxOpen
  /\ captured < MaxFrames
  /\ captured' = captured + 1
  /\ sent' = IF handedOver(liveSessionRef[i])
             THEN transmitted(liveSessionRef[i], captured + 1, sent)
             ELSE sent
  /\ isRecording' = IF handedOver(liveSessionRef[i]) /\ rejected(liveSessionRef[i])
                    THEN catchSend(isRecording) ELSE isRecording
  /\ last' = Step("onaudioprocess", p, NoMsg)
  /\ UNCHANGED <<isLoading, error, chatMessages, currentInputTranscription,
                 currentOutputTranscription>>
  /\ UNCHANGED <<refVars, attVars, envVars, hisVars, callVars, appVars>>

\* ------------------------------------------- audio utility functions ----
\* A Float32 sample is counted in half steps of the 16-bit grid: the
\* integer n stands for the sample n / 65536, so FULL_SCALE stands for 1.0
\* and one quantization step 1/32768 is STEP half steps.
FULL_SCALE == 65536
STEP == 2

\* the low 16 bits of v read as a signed integer: what a store into an
\* Int16Array element keeps
ToInt16(v) ==
  LET u == v % 65536 IN IF u >= 32768 THEN u - 65536 ELSE u

\* the store truncates the fraction toward zero first
truncate(n, d) == IF n >= 0 THEN n \div d ELSE -((-n) \div d)

\* createBlob, line 298: int16[i] = data[i] * 32768; the product of the
\* sample n / FULL_SCALE and 32768 is n / STEP
quantize(n) == ToInt16(truncate(n, STEP))

\* new Uint8Array(int16.buffer): two bytes per element, low byte first
bytesOf(int16) ==
  [j \in 1..(2 * Len(int16)) |->
     LET u == int16[(j + 1) \div 2] % 65536
     IN IF j % 2 = 1 THEN u % 256 ELSE u \div 256]

\* base64 text: a sequence of 6-bit digits, PAD standing for '='
PAD == 64

\* the 24 bits of the g-th group of three bytes, absent bytes as 0
group(bytes, g) ==
  LET b(j) == IF 3 * g + j <= Len(bytes) THEN bytes[3 * g + j] ELSE 0
  IN b(1) * 65536 + b(2) * 256 + b(3)

\* encode: btoa of the string of the bytes' char codes
encode(bytes) ==
  [c \in 1..(4 * ((Len(bytes) + 2) \div 3)) |->
     LET g == (c - 1) \div 4
         p == (c - 1) % 4
         digit == (group(bytes, g) \div (64 ^ (3 - p))) % 64
     IN IF p >= 2 /\ 3 * g + p > Len(bytes) THEN PAD ELSE digit]

\* the number of '=' at the end of a base64 text
padding(base64) ==
  Cardinality({c \in 1..Len(base64) : base64[c] = PAD})

\* decode: the char codes of atob of the text
decode(base64) ==
  [j \in 1..(3 * (Len(base64) \div 4) - padding(base64)) |->
     LET g == (j - 1) \div 3
         p == (j - 1) % 3
         d(c) == IF base64[4 * g + c] = PAD THEN 0 ELSE base64[4 * g + c]
         w == d(1) * 262144 + d(2) * 4096 + d(3) * 64 + d(4)
     IN (w \div (256 ^ (2 - p))) % 256]

\* createBlob(data).data
createBlob(data) ==
  encode(bytesOf([i \in 1..Len(data) |-> quantize(data[i])]))

\* createBlob(data).mimeType, line 302: the rate of `audio/pcm;rate=${...}`
mimeTypeRate == INPUT_AUDIO_SAMPLE_RATE

\* new Int16Array(data.buffer), line 280
int16Of(bytes) ==
  [i \in 1..(Len(bytes) \div BYTES_PER_SAMPLE) |->
     ToInt16(bytes[2 * i - 1] + 256 * bytes[2 * i])]

\* decodeAudioData: channel 0 of the buffer, dataInt16[i * numChannels] /
\* 32768.0, in half steps
decodeAudioData(data, numChannels) ==
  LET dataInt16 == int16Of(data)
  IN [i \in 1..(Len(dataInt16) \div numChannels) |->
        dataInt16[(i - 1) * numChannels + 1] * STEP]

\* the samples tried: both ends of [-1, 1], their neighbours, zero and the
\* values around it that fall between two steps of the grid
Samples ==
  {-FULL_SCALE, 1 - FULL_SCALE, -3, -1, 0, 1, 3, FULL_SCALE - 1, FULL_SCALE}

Frames == UNION {[1..n -> Samples] : n \in 0..MaxSamples}

\* the calls of the utility functions that are tried
Calls == {[fn |-> "createBlob", data |-> x] : x \in Frames}

\* A captured frame is encoded by createBlob and the encoded frame decoded
\* as an inbound chunk is: decodeAudioData(decode(createBlob(x).data)).
roundTrip ==
  /\ callIn.fn = "createBlob" /\ callOut = <<>>
  /\ callOut' =
       <<decodeAudioData(decode(createBlob(callIn.data)), AUDIO_NUM_CHANNELS)>>
  /\ UNCHANGED <<callIn, liveVars, frameVars, appVars>>

\* ------------------------------------------------- convertPcmToWavBlob ----
headerLength == 44
bitsPerSample == 16

\* the char codes of the four tags writeString writes
RIFF == <<82, 73, 70, 70>>
WAVE == <<87, 65, 86, 69>>
FMT  == <<102, 109, 116, 32>>
DATA == <<100, 97, 116, 97>>

\* writeString(view, offset, s): one byte per char code
writeString(s) == [j \in 1..Len(s) |-> s[j] % 256]

\* view.setUint32(offset, v, true) and view.setUint16(offset, v, true):
\* the low bytes of v, least significant first
setUint32(v) == [j \in 1..4 |-> (v \div (256 ^ (j - 1))) % 256]
setUint16(v) == [j \in 1..2 |-> (v \div (256 ^ (j - 1))) % 256]

\* (mutant: the RIFF size counts the whole file)
fileLength_whole(dataLength) == dataLength + headerLength

\* line 326
fileLength(dataLength) == dataLength + headerLength - 8

\* convertPcmToWavBlob: the bytes of the Blob
convertPcmToWavBlob(pcmBytes, sampleRate, numChannels) ==
  LET dataLength == Len(pcmBytes) IN
  writeString(RIFF) \o setUint32(fileLength(dataLength)) \o writeString(WAVE)
  \o writeString(FMT) \o setUint32(16) \o setUint16(1)
  \o setUint16(numChannels) \o setUint32(sampleRate)
  \o setUint32(sampleRate * numChannels * (bitsPerSample \div 8))
  \o setUint16(numChannels * (bitsPerSample \div 8))
  \o setUint16(bitsPerSample)
  \o writeString(DATA) \o setUint32(dataLength)
  \o [j \in 1..dataLength |-> pcmBytes[j] % 256]

\* the PCM payloads, sample rates and channel counts tried
Payloads == UNION {[1..n -> {0, 1, 255}] : n \in 0..MaxPcmBytes}
Rates == {8000, INPUT_AUDIO_SAMPLE_RATE, OUTPUT_AUDIO_SAMPLE_RATE, 44100}
Channels == {AUDIO_NUM_CHANNELS, 2}

WavCalls ==
  {[fn |-> "convertPcmToWavBlob", pcmBytes |-> b, sampleRate |-> r,
    numChannels |-> c] : b \in Payloads, r \in Rates, c \in Channels}

\* convertPcmToWavBlob is called on the arguments
wav ==
  /\ callIn.fn = "convertPcmToWavBlob" /\ callOut = <<>>
  /\ callOut' = <<convertPcmToWavBlob(callIn.pcmBytes, callIn.sampleRate,
                                      callIn.numChannels)>>
  /\ UNCHANGED <<callIn, liveVars, frameVars, appVars>>

\* ------------------------------------- analyzeVideoTranscriptForInfo ----
\* The text of a response is a sequence of lexemes: the punctuation of JSON,
\* the literals null and 1, a blank, and string literals (written without
\* their quotes).
Punctuation == {"{", "}", "[", "]", ":", ","}
Strings ==
  {"analysisText", "timeframes", "startTime", "endTime", "description", "x"}

\* the values JSON.parse yields
Undefined == [type |-> "undefined"]
Null      == [type |-> "null"]
Number(n) == [type |-> "number", n |-> n]
String(s) == [type |-> "string", s |-> s]
Array(items)    == [type |-> "array", items |-> items]
Object(members) == [type |-> "object", members |-> members]

\* obj[key] of a parsed value: the last member of that name, undefined
\* when there is none or when obj is not an object
member(obj, key) ==
  IF obj.type # "object" THEN Undefined
  ELSE LET at == {n \in 1..Len(obj.members) : obj.members[n][1] = key} IN
       IF at = {} THEN Undefined
       ELSE obj.members[CHOOSE n \in at : \A o \in at : o <= n][2]

\* String.prototype.trim(): the text without its leading and trailing blanks
trimWhitespace(text) ==
  LET inked == {n \in 1..Len(text) : text[n] # " "} IN
  IF inked = {} THEN <<>>
  ELSE SubSeq(text, CHOOSE n \in inked : \A o \in inked : n <= o,
                    CHOOSE n \in inked : \A o \in inked : o <= n)

\* the text from its first lexeme that is not a blank
skip(text) ==
  LET inked == {n \in 1..Len(text) : text[n] # " "} IN
  IF inked = {} THEN <<>>
  ELSE SubSeq(text, CHOOSE n \in inked : \A o \in inked : n <= o, Len(text))

\* the result of a parsing step: the value read and the text after it, or
\* a SyntaxError
SyntaxError == [ok |-> FALSE]
Parsed(val, rest) == [ok |-> TRUE, val |-> val, rest |-> rest]

RECURSIVE parseValue(_), parseElements(_, _), parseMembers(_, _)

\* the elements of an array after its "[" or after a ","
parseElements(text, items) ==
  LET e == parseValue(text) IN
  IF ~e.ok THEN SyntaxError
  ELSE LET rest == skip(e.rest) IN
       IF rest = <<>> THEN SyntaxError
       ELSE IF Head(rest) = "," THEN parseElements(Tail(rest), Append(items, e.val))
       ELSE IF Head(rest) = "]" THEN Parsed(Array(Append(items, e.val)), Tail(rest))
       ELSE SyntaxError

\* the members of an object after its "{" or after a ","
parseMembers(text, members) ==
  LET key == skip(text) IN
  IF key = <<>> \/ Head(key) \notin Strings THEN SyntaxError
  ELSE LET colon == skip(Tail(key)) IN
       IF colon = <<>> \/ Head(colon) # ":" THEN SyntaxError
       ELSE LET v == parseValue(Tail(colon)) IN
            IF ~v.ok THEN SyntaxError
            ELSE LET rest == skip(v.rest)
                     all  == Append(members, <<Head(key), v.val>>) IN
                 IF rest = <<>> THEN SyntaxError
                 ELSE IF Head(rest) = "," THEN parseMembers(Tail(rest), all)
                 ELSE IF Head(rest) = "}" THEN Parsed(Object(all), Tail(rest))
                 ELSE SyntaxError

\* one JSON value at the start of the text
parseValue(text) ==
  LET t == skip(text) IN
  IF t = <<>> THEN SyntaxError
  ELSE LET h == Head(t)
           after == skip(Tail(t)) IN
       CASE h \in Strings -> Parsed(String(<<h>>), Tail(t))
         [] h = "1"    -> Parsed(Number(1), Tail(t))
         [] h = "null" -> Parsed(Null, Tail(t))
         [] h = "["    -> IF after # <<>> /\ Head(after) = "]"
                          THEN Parsed(Array(<<>>), Tail(after))
                          ELSE parseElements(Tail(t), <<>>)
         [] h = "{"    -> IF after # <<>> /\ Head(after) = "}"
                          THEN Parsed(Object(<<>>), Tail(after))
                          ELSE parseMembers(Tail(t), <<>>)
         [] OTHER      -> SyntaxError

\* JSON.parse: the value the whole text denotes, or a SyntaxError
JSONparse(text) ==
  LET p == parseValue(text) IN
  IF p.ok /\ skip(p.rest) = <<>> THEN p ELSE SyntaxError

\* the words the fallback puts before the raw response, and what a template
\* literal prints for a text that is undefined
FAILED_TO_PARSE == "Failed to parse structured analysis. Raw response: "
UNDEFINED == "undefined"

\* the object the catch block returns
fallback(raw) ==
  Object(<< <<"analysisText", String(<<FAILED_TO_PARSE>> \o raw)>>,
            <<"timeframes", Array(<<>>)>> >>)

\* The try and catch blocks of analyzeVideoTranscriptForInfo on a response:
\* response.text is undefined for a response without a text part, and then
\* .trim() throws inside the try block.
analyzeVideoTranscriptForInfo(response) ==
  IF ~response.hasText THEN fallback(<<UNDEFINED>>)
  ELSE LET parsedResponse == JSONparse(trimWhitespace(response.text)) IN
       IF parsedResponse.ok THEN parsedResponse.val
       ELSE fallback(response.text)

\* the documents a model answers with: an analysis with and without
\* timeframes, and JSON of other shapes
Documents ==
  { <<"{", "analysisText", ":", "x", ",", "timeframes", ":", "[", "]", "}">>,
    <<"{", "analysisText", ":", "x", ",", "timeframes", ":", "[",
        "{", "startTime", ":", "x", ",", "endTime", ":", "x", ",",
             "description", ":", "x", "}", "]", "}">>,
    <<"{", "timeframes", ":", "[", "]", ",", "analysisText", ":", "x", "}">>,
    <<"{", "analysisText", ":", "x", "}">>,
    <<"{", "analysisText", ":", "1", ",", "timeframes", ":", "null", "}">>,
    <<"{", "analysisText", ":", "x", ",", "timeframes", ":", "[", "1", "]", "}">>,
    <<"{", "}">>, <<"[", "x", ",", "x", "]">>, <<"x">>, <<"1">>, <<"null">> }

\* a text of n blanks
blanks(n) == [j \in 1..n |-> " "]

\* the response texts tried: each document whole or cut short, bare or
\* between blanks
Texts ==
  UNION {{blanks(p) \o SubSeq(d, 1, n) \o blanks(q) :
            n \in 0..Len(d), p \in 0..MaxPad, q \in 0..MaxPad} : d \in Documents}

Responses ==
  {[hasText |-> TRUE, text |-> t] : t \in Texts}
    \cup {[hasText |-> FALSE, text |-> <<>>]}

AnalysisCalls ==
  {[fn |-> "analyzeVideoTranscriptForInfo", response |-> r] : r \in Responses}

\* generateContent resolved with the response: the rest of
\* analyzeVideoTranscriptForInfo runs
analyze ==
  /\ callIn.fn = "analyzeVideoTranscriptForInfo" /\ callOut = <<>>
  /\ callOut' = <<analyzeVideoTranscriptForInfo(callIn.response)>>
  /\ UNCHANGED <<callIn, liveVars, frameVars, appVars>>

\* ------------------------------------------------------ ApiKeyChecker ----
\* the environments the application is started in
Environments == [aistudio : BOOLEAN, apiKey : BOOLEAN, hasKey : BOOLEAN]

\* the step of the application: the operation and the file it was given
Did(op, file) == [op |-> op, file |-> file]

\* (mutant: without window.aistudio the key check succeeds whatever the
\* environment holds)
localCredential_assumed(key) == TRUE

\* checkAndSelectApiKey without window.aistudio: !!process.env.API_KEY
localCredential(key) == key

\* The try, catch and finally blocks of handleCheckKey once
\* checkAndSelectApiKey has settled: outcome is "true", "false" or "threw".
checked(outcome) ==
  /\ apiKeyAvailable' = IF outcome = "true" THEN "true" ELSE "false"
  /\ keyError' = CASE outcome = "true"  -> "null"
                   [] outcome = "false" -> "select"
                   [] outcome = "threw" -> "failed"
  /\ keyIsLoading' = FALSE
  /\ keyPc' = "done"
  /\ returned' = outcome

\* handleCheckKey up to the first suspension of checkAndSelectApiKey: with
\* window.aistudio it awaits hasSelectedApiKey, without it the key check
\* returns at once.
handleCheckKey(op) ==
  /\ checks < MaxChecks
  /\ checks' = checks + 1
  /\ IF aistudio
     THEN /\ keyIsLoading' = TRUE
          /\ keyError' = "null"
          /\ keyPc' = "hasSelectedApiKey"
          /\ UNCHANGED <<apiKeyAvailable, returned>>
     ELSE checked(IF localCredential(apiKey) THEN "true" ELSE "false")
  /\ event' = Did(op, None)
  /\ UNCHANGED <<aistudio, apiKey, hasKey, storyVars, uploadVars,
                 liveVars, callVars, frameVars, chatVars>>

\* the mount effect of ApiKeyChecker
mountCheck ==
  /\ keyPc = "mount"
  /\ handleCheckKey("mountCheck")

\* the application content is rendered
Rendered == ~keyIsLoading /\ apiKeyAvailable = "true"

\* the gate shows its error and the "Select API Key" button
GateShown == ~keyIsLoading /\ apiKeyAvailable # "true"

\* the "Select API Key" button: onClick = handleCheckKey
clickSelectKey ==
  /\ GateShown
  /\ handleCheckKey("clickSelectKey")

\* window.aistudio.hasSelectedApiKey() resolves: with a key selected the
\* check returns true, without one it opens the selection dialog.
hasSelectedApiKeyResolved ==
  /\ keyPc = "hasSelectedApiKey"
  /\ IF hasKey
     THEN checked("true")
     ELSE /\ keyPc' = "openSelectKey"
          /\ UNCHANGED <<apiKeyAvailable, keyError, keyIsLoading, returned>>
  /\ event' = Did("hasSelectedApiKeyResolved", None)
  /\ UNCHANGED <<aistudio, apiKey, hasKey, checks, storyVars, uploadVars,
                 liveVars, callVars, frameVars, chatVars>>

\* window.aistudio.openSelectKey() resolves, the user having picked a key
\* or not: checkAndSelectApiKey returns true either way.
openSelectKeyResolved(picked) ==
  /\ keyPc = "openSelectKey"
  /\ hasKey' = picked
  /\ checked("true")
  /\ event' = Did("openSelectKeyResolved", None)
  /\ UNCHANGED <<aistudio, apiKey, checks, storyVars, uploadVars,
                 liveVars, callVars, frameVars, chatVars>>

\* hasSelectedApiKey or openSelectKey rejects: checkAndSelectApiKey throws.
keyCheckRejected ==
  /\ keyPc \in {"hasSelectedApiKey", "openSelectKey"}
  /\ checked("threw")
  /\ event' = Did("keyCheckRejected", None)
  /\ UNCHANGED <<aistudio, apiKey, hasKey, checks, storyVars, uploadVars,
                 liveVars, callVars, frameVars, chatVars>>

\* --------------------------------------------------------- FileUpload ----
\* the default of the acceptedFileTypes prop
acceptedFileTypes == <<".", "s", "r", "t", ",", ".", "t", "x", "t">>

\* String.prototype.split(sep): the pieces of s between the separators
RECURSIVE split(_, _)
split(s, sep) ==
  LET at == {n \in 1..Len(s) : s[n] = sep} IN
  IF at = {} THEN <<s>>
  ELSE LET n == CHOOSE m \in at : \A o \in at : m <= o IN
       <<SubSeq(s, 1, n - 1)>> \o split(SubSeq(s, n + 1, Len(s)), sep)

\* String.prototype.endsWith
endsWith(name, ext) ==
  /\ Len(ext) <= Len(name)
  /\ SubSeq(name, Len(name) - Len(ext) + 1, Len(name)) = ext

\* (mutant: every file name passes)
accepted_any(name) == TRUE

\* acceptedFileTypes.split(',').some(ext => file.name.endsWith(ext.trim()))
accepted(name) ==
  LET exts == split(acceptedFileTypes, ",") IN
  \E n \in 1..Len(exts) : endsWith(name, trimWhitespace(exts[n]))

\* the file names and the file contents tried
FileNames ==
  { <<"a", ".", "s", "r", "t">>, <<"a", ".", "t", "x", "t">>,
    <<"a", ".", "m", "p", "4">>, <<"a", ".", "S", "R", "T">>,
    <<"s", "r", "t">>, <<"a", ".", "t", "x", "t", ".", "b">> }
FileContents == {<<>>, <<"a">>, <<"b">>}

\* the files tried: each name with one content; the names that end in .srt
\* and .txt with every content
Files ==
  {f \in [name : FileNames, content : FileContents] :
     \/ f.content = <<"a">>
     \/ f.name \in {<<"a", ".", "s", "r", "t">>, <<"a", ".", "t", "x", "t">>}}

\* handleFileChange: the change event of the file input, with the file
\* picked or none.  The input is opened by a button disabled while loading.
handleFileChange(picked) ==
  /\ Rendered
  /\ ~loading
  /\ IF picked = None
     THEN /\ uploadError' = "No file selected."
          /\ UNCHANGED <<loading, reader>>
     ELSE IF ~accepted(picked[1].name)
     THEN /\ uploadError' = "Invalid file type."
          /\ UNCHANGED <<loading, reader>>
     ELSE /\ loading' = TRUE
          /\ uploadError' = "null"
          /\ reader' = picked
  /\ event' = Did("handleFileChange", picked)
  /\ UNCHANGED <<keyVars, storyVars, liveVars, callVars, frameVars, chatVars>>

\* handleFileRead, the onFileRead of the FileUpload StoryGenerator renders
handleFileRead(content, fileName) ==
  /\ transcriptContent' = Some(content)
  /\ transcriptFileName' = Some(fileName)
  /\ generatedOutput' = None
  /\ audioPlayback' = None
  /\ storyError' = "null"

\* reader.onload: the file has been read
readerOnload ==
  /\ reader # None
  /\ handleFileRead(reader[1].content, reader[1].name)
  /\ loading' = FALSE
  /\ reader' = None
  /\ event' = Did("reader.onload", reader)
  /\ UNCHANGED <<uploadError, storyIsLoading, mode, analysisQuery, request,
                 keyVars, liveVars, callVars, frameVars, chatVars>>

\* reader.onerror: the file could not be read
readerOnerror ==
  /\ reader # None
  /\ uploadError' = "Failed to read file."
  /\ loading' = FALSE
  /\ reader' = None
  /\ event' = Did("reader.onerror", reader)
  /\ UNCHANGED <<storyVars, keyVars, liveVars, callVars, frameVars, chatVars>>

\* ----------------------------------------------------- StoryGenerator ----
Modes == {"story", "analysis"}
Queries == {<<>>, <<" ">>, <<"a">>}

\* a string that is not empty (truthy), held by an optional state
present(text) == text # None /\ text[1] # <<>>

\* a generatedOutput that is truthy: an analysis object or a story that is
\* not the empty string
generated(output) ==
  output # None /\ (output[1].mode = "analysis" \/ output[1].text # <<>>)

\* isActionDisabled
isActionDisabled ==
  \/ storyIsLoading
  \/ ~present(transcriptContent)
  \/ mode = "analysis" /\ ~trim(analysisQuery)

\* the mode selector and the query field, disabled while isLoading
setMode(m) ==
  /\ Rendered /\ ~storyIsLoading
  /\ m # mode
  /\ mode' = m
  /\ event' = Did("setMode", None)
  /\ UNCHANGED <<transcriptContent, transcriptFileName, generatedOutput,
                 audioPlayback, storyIsLoading, storyError, analysisQuery,
                 request, uploadVars, keyVars, liveVars, callVars, frameVars, chatVars>>

setAnalysisQuery(q) ==
  /\ Rendered /\ ~storyIsLoading
  /\ mode = "analysis"
  /\ q # analysisQuery
  /\ analysisQuery' = q
  /\ event' = Did("setAnalysisQuery", None)
  /\ UNCHANGED <<transcriptContent, transcriptFileName, generatedOutput,
                 audioPlayback, storyIsLoading, storyError, mode,
                 request, uploadVars, keyVars, liveVars, callVars, frameVars, chatVars>>

\* handleGenerate up to its await: the generate button, disabled when
\* isActionDisabled
handleGenerate ==
  /\ Rendered /\ ~isActionDisabled
  /\ IF ~present(transcriptContent)
     THEN /\ storyError' = "upload"
          /\ UNCHANGED <<storyIsLoading, generatedOutput, audioPlayback, request>>
     ELSE IF mode = "analysis" /\ ~trim(analysisQuery)
     THEN /\ storyError' = "query"
          /\ storyIsLoading' = FALSE
          /\ generatedOutput' = None
          /\ audioPlayback' = None
          /\ UNCHANGED request
     ELSE /\ storyIsLoading' = TRUE
          /\ storyError' = "null"
          /\ generatedOutput' = None
          /\ audioPlayback' = None
          /\ request' = Some([kind |-> mode, of |-> transcriptContent[1]])
  /\ event' = Did("handleGenerate", None)
  /\ UNCHANGED <<transcriptContent, transcriptFileName, mode, analysisQuery,
                 uploadVars, keyVars, liveVars, callVars, frameVars, chatVars>>

\* the texts a generation answers with
Answers == {<<>>, <<"s">>}

\* generateStoryFromTranscript or analyzeVideoTranscriptForInfo resolves
\* with a result made from the transcript it was given
generateResolved(text) ==
  /\ request # None /\ request[1].kind \in Modes
  /\ request[1].kind = "analysis" => text # <<>>
  /\ generatedOutput' =
       Some([mode |-> request[1].kind, of |-> request[1].of, text |-> text])
  /\ storyIsLoading' = FALSE
  /\ request' = None
  /\ event' = Did("generateResolved", None)
  /\ UNCHANGED <<transcriptContent, transcriptFileName, audioPlayback,
                 storyError, mode, analysisQuery,
                 uploadVars, keyVars, liveVars, callVars, frameVars, chatVars>>

\* the remote call rejects, or getGeminiClient throws: catch and finally
requestRejected ==
  /\ request # None
  /\ storyError' = IF request[1].kind = "audio" THEN "audio" ELSE "generate"
  /\ storyIsLoading' = FALSE
  /\ request' = None
  /\ event' = Did("requestRejected", None)
  /\ UNCHANGED <<transcriptContent, transcriptFileName, generatedOutput,
                 audioPlayback, mode, analysisQuery,
                 uploadVars, keyVars, liveVars, callVars, frameVars, chatVars>>

\* handleGenerateAudio up to its await: the narration button
handleGenerateAudio ==
  /\ Rendered
  /\ ~(isActionDisabled \/ ~generated(generatedOutput)
         \/ (storyIsLoading /\ audioPlayback = None))
  /\ IF ~generated(generatedOutput)
     THEN /\ storyError' = "text"
          /\ UNCHANGED <<storyIsLoading, audioPlayback, request>>
     ELSE /\ storyIsLoading' = TRUE
          /\ storyError' = "null"
          /\ audioPlayback' = None
          /\ request' = Some([kind |-> "audio", of |-> generatedOutput[1]])
  /\ event' = Did("handleGenerateAudio", None)
  /\ UNCHANGED <<transcriptContent, transcriptFileName, generatedOutput,
                 mode, analysisQuery,
                 uploadVars, keyVars, liveVars, callVars, frameVars, chatVars>>

\* generateAudioFromText resolves, with audio of the text it was given or
\* with undefined
audioResolved(hasAudio) ==
  /\ request # None /\ request[1].kind = "audio"
  /\ audioPlayback' = IF hasAudio THEN Some([of |-> request[1].of]) ELSE None
  /\ storyIsLoading' = FALSE
  /\ request' = None
  /\ event' = Did("audioResolved", None)
  /\ UNCHANGED <<transcriptContent, transcriptFileName, generatedOutput,
                 storyError, mode, analysisQuery,
                 uploadVars, keyVars, liveVars, callVars, frameVars, chatVars>>

\* -------------------------------------------------------- GeneralChat ----
\* what the user types into the input field
Inputs == {<<>>, <<" ">>, <<"a">>, <<" ", "a">>}

\* what generateContentWithSearch resolves with: response.text and the
\* uris of the grounding chunks
SearchTexts == {<<>>, <<"r">>}
Urls == {<<>>, <<"u">>, <<"u", "v">>}

\* the input field: disabled={isLoading}
inputDisabled == chatIsLoading

\* the send button: disabled={isLoading || !input.trim()}
sendDisabled == chatIsLoading \/ ~trim(input)

\* onChange of the input field
setInput(text) ==
  /\ Rendered /\ ~inputDisabled
  /\ text # input
  /\ input' = text
  /\ event' = Did("setInput", None)
  /\ UNCHANGED <<messages, chatIsLoading, chatError, chatInst, searches>>
  /\ UNCHANGED <<keyVars, storyVars, uploadVars, liveVars, callVars, frameVars>>

\* sendMessage up to its await: nothing for a blank input; otherwise the
\* user's message is appended, the field cleared and the call started
sendMessage ==
  IF ~trim(input)
  THEN UNCHANGED <<messages, input, chatIsLoading, chatError, searches>>
  ELSE /\ messages' = Append(messages, [role |-> USER, content |-> input])
       /\ input' = <<>>
       /\ chatIsLoading' = TRUE
       /\ chatError' = "null"
       /\ searches' = searches \cup {[inst |-> chatInst, prompt |-> input]}

\* onClick of the send button
clickSend ==
  /\ Rendered /\ ~sendDisabled
  /\ Len(messages) < 2 * MaxExchanges
  /\ sendMessage
  /\ event' = Did("clickSend", Some(input))
  /\ UNCHANGED chatInst
  /\ UNCHANGED <<keyVars, storyVars, uploadVars, liveVars, callVars, frameVars>>

\* handleKeyPress: a key pressed in the input field
Keys == {"Enter", "a"}
handleKeyPress(key) ==
  /\ Rendered /\ ~inputDisabled
  /\ Len(messages) < 2 * MaxExchanges
  /\ IF key = "Enter" /\ ~chatIsLoading
     THEN sendMessage
     ELSE UNCHANGED <<messages, input, chatIsLoading, chatError, searches>>
  /\ event' = Did(IF key = "Enter" THEN "pressEnter" ELSE "pressKey", Some(input))
  /\ UNCHANGED chatInst
  /\ UNCHANGED <<keyVars, storyVars, uploadVars, liveVars, callVars, frameVars>>

\* lines 111-113: the text, followed by the list of sources when there are
\* urls
sourceLines(urls) ==
  [j \in 1..(2 * Len(urls)) |-> IF j % 2 = 1 THEN "-" ELSE urls[j \div 2]]
modelMessageContent(text, urls) ==
  IF Len(urls) > 0 THEN text \o <<"S">> \o sourceLines(urls) ELSE text

\* (mutant: the catch block sets the error and appends nothing)
failureMessage_none(log) == log

\* lines 124-131: the catch block appends a message of the model
failureMessage(log) == Append(log, [role |-> MODEL, content |-> <<"O">>])

\* generateContentWithSearch of call q resolves: lines 110-120 and the
\* finally block.  The setters of an instance that is no longer mounted do
\* nothing.
searchResolved(q, text, urls) ==
  /\ q \in searches
  /\ searches' = searches \ {q}
  /\ IF q.inst = chatInst
     THEN /\ messages' =
               Append(messages,
                      [role |-> MODEL, content |-> modelMessageContent(text, urls)])
          /\ chatIsLoading' = FALSE
     ELSE UNCHANGED <<messages, chatIsLoading>>
  /\ event' = Did("searchResolved", Some(q))
  /\ UNCHANGED <<input, chatError, chatInst>>
  /\ UNCHANGED <<keyVars, storyVars, uploadVars, liveVars, callVars, frameVars>>

\* generateContentWithSearch of call q rejects: the catch and finally blocks
searchRejected(q) ==
  /\ q \in searches
  /\ searches' = searches \ {q}
  /\ IF q.inst = chatInst
     THEN /\ chatError' = "response"
          /\ messages' = failureMessage(messages)
          /\ chatIsLoading' = FALSE
     ELSE UNCHANGED <<messages, chatIsLoading, chatError>>
  /\ event' = Did("searchRejected", Some(q))
  /\ UNCHANGED <<input, chatInst>>
  /\ UNCHANGED <<keyVars, storyVars, uploadVars, liveVars, callVars, frameVars>>

\* The tab is switched away and back: the next visit mounts a fresh
\* instance (useState initial values); a call of the old one stays pending.
chatUnmount ==
  /\ Rendered
  /\ chatInst < MaxInst
  /\ chatInst' = chatInst + 1
  /\ messages' = <<>>
  /\ input' = <<>>
  /\ chatIsLoading' = FALSE
  /\ chatError' = "null"
  /\ event' = Did("chatUnmount", None)
  /\ UNCHANGED searches
  /\ UNCHANGED <<keyVars, storyVars, uploadVars, liveVars, callVars, frameVars>>

\* Every behaviour of the component: the user, the browser and the remote
\* endpoint, failures included.
Next ==
  \/ clickStart
  \/ clickStop
  \/ unmount
  \/ \E k \in Attempts : getUserMediaRejected(k)
  \/ \E k \in Attempts, stage \in Stages : getUserMediaResolved(k, stage)
  \/ \E k \in Attempts : startLiveSessionResolved(k)
  \/ \E k \in Attempts : startLiveSessionRejected(k)
  \/ \E k \in Attempts : onerror(k)
  \/ \E k \in Attempts, wasClean \in BOOLEAN : onclose(k, wasClean)
  \/ \E k \in Attempts, m \in Messages : delivered < MaxMsgs /\ onmessage(k, m)
  \/ decodeSettled
  \/ tick
  \/ \E s \in 1..MaxSources : ended(s)

Spec == Init /\ [][Next]_vars

\* The behaviours in which nothing fails and the component stays mounted:
\* sessions are started and stopped by the user and carry longer
\* conversations.
NextSession ==
  \/ clickStart
  \/ clickStop
  \/ \E k \in Attempts : getUserMediaResolved(k, "none")
  \/ \E k \in Attempts : startLiveSessionResolved(k)
  \/ \E k \in Attempts : onclose(k, TRUE) /\ conn[k] = "closing"
  \/ \E k \in Attempts, m \in Messages : delivered < MaxTurnMsgs /\ onmessage(k, m)
  \/ decodeSettled
  \/ tick
  \/ \E s \in 1..MaxSources : ended(s)

SpecSession == Init /\ [][NextSession]_vars

\* The capture pipeline while sessions are started, stopped and closed by
\* the endpoint: no server message is delivered.
NextCapture ==
  \/ clickStart
  \/ clickStop
  \/ \E k \in Attempts : getUserMediaResolved(k, "none")
  \/ \E k \in Attempts : startLiveSessionResolved(k)
  \/ \E k \in Attempts : startLiveSessionRejected(k)
  \/ \E k \in Attempts, wasClean \in BOOLEAN : onclose(k, wasClean)
  \/ \E p \in Attempts : onaudioprocess(p)

SpecCapture == Init /\ [][NextCapture]_vars

\* The audio utility functions, called on each of the arguments tried.
InitCodec ==
  /\ InitLive /\ callIn \in Calls \cup WavCalls \cup AnalysisCalls /\ callOut = <<>>
  /\ InitFrames /\ GateOpen /\ InitStory /\ InitChat

NextCodec ==
  \/ roundTrip
  \/ wav
  \/ analyze

SpecCodec == InitCodec /\ [][NextCodec]_vars

\* The application from its start in any environment: the credential gate,
\* then the story generator with its file upload.
InitApp ==
  /\ InitLive /\ callIn = NoCall /\ callOut = <<>> /\ InitFrames
  /\ \E e \in Environments : InitKey(e)
  /\ InitStory /\ InitChat

NextApp ==
  \/ mountCheck
  \/ clickSelectKey
  \/ hasSelectedApiKeyResolved
  \/ \E picked \in BOOLEAN : openSelectKeyResolved(picked)
  \/ keyCheckRejected
  \/ \E picked \in {None} \cup {Some(f) : f \in Files} : handleFileChange(picked)
  \/ readerOnload
  \/ readerOnerror
  \/ \E m \in Modes : setMode(m)
  \/ \E q \in Queries : setAnalysisQuery(q)
  \/ handleGenerate
  \/ \E text \in Answers : generateResolved(text)
  \/ requestRejected
  \/ handleGenerateAudio
  \/ \E hasAudio \in BOOLEAN : audioResolved(hasAudio)

SpecApp == InitApp /\ [][NextApp]_vars

\* Sessions in which only text is exchanged (transcription deltas,
\* turn-complete and interrupted events), started and stopped by the user
\* up to MaxRestarts times.
TextMessages == {m \in Messages : m.audio = 0}

NextLog ==
  \/ startRecording(MaxRestarts)
  \/ clickStop
  \/ \E k \in Attempts : getUserMediaResolved(k, "none")
  \/ \E k \in Attempts : startLiveSessionResolved(k)
  \/ \E k \in Attempts, m \in TextMessages :
       delivered < MaxTurnMsgs /\ onmessage(k, m)

SpecLog == Init /\ [][NextLog]_vars

\* The application behind the open gate, on one of its tabs: the story
\* generator with its file upload, or the live chat.  A tab that is not
\* shown is not mounted, so the state of only one of them ever leaves its
\* initial value.
NextStory ==
  \/ \E picked \in {None} \cup {Some(f) : f \in Files} : handleFileChange(picked)
  \/ readerOnload
  \/ readerOnerror
  \/ \E m \in Modes : setMode(m)
  \/ \E q \in Queries : setAnalysisQuery(q)
  \/ handleGenerate
  \/ \E text \in Answers : generateResolved(text)
  \/ requestRejected
  \/ handleGenerateAudio
  \/ \E hasAudio \in BOOLEAN : audioResolved(hasAudio)

NextOps ==
  \/ attempts = 0 /\ NextStory
  \/ event.op = "none" /\ Next

SpecOps == Init /\ [][NextOps]_vars

\* GeneralChat behind the open gate: the user types, sends and leaves the
\* tab; every call of generateContentWithSearch settles, with a response or
\* with a failure.
settle ==
  \E q \in searches :
    \/ \E text \in SearchTexts, urls \in Urls : searchResolved(q, text, urls)
    \/ searchRejected(q)

NextChat ==
  \/ \E text \in Inputs : setInput(text)
  \/ clickSend
  \/ \E key \in Keys : handleKeyPress(key)
  \/ settle
  \/ chatUnmount

SpecChat == Init /\ [][NextChat]_vars /\ WF_vars(settle)

\* ================================================================ claims ====
EndsWith(log, suffix) ==
  /\ Len(log) >= Len(suffix)
  /\ SubSeq(log, Len(log) - Len(suffix) + 1, Len(log)) = suffix

\* a message that carries a turn-complete and nothing else
TurnCompleteOnly(m) ==
  /\ m.turnComplete /\ ~m.interrupted
  /\ m.outputTranscription = <<>> /\ m.inputTranscription = <<>>

\* no ref of instance i holds anything
NothingHeld(i) ==
  /\ mediaStreamRef[i] = 0 /\ mediaStreamSourceRef[i] = 0
  /\ scriptProcessorRef[i] = 0 /\ audioContextRef[i] = 0
  /\ outputAudioContextRef[i] = 0 /\ liveSessionRef[i] = 0

\* no ref of instance i holds anything after the step
NothingHeldAfter(i) ==
  /\ mediaStreamRef'[i] = 0 /\ mediaStreamSourceRef'[i] = 0
  /\ scriptProcessorRef'[i] = 0 /\ audioContextRef'[i] = 0
  /\ outputAudioContextRef'[i] = 0 /\ liveSessionRef'[i] = 0

\* what the refs of instance i held before the step is released after it
Releases(i) ==
  /\ mediaStreamRef[i] \notin micLive'
  /\ mediaStreamSourceRef[i] \notin sourceConnected'
  /\ scriptProcessorRef[i] \notin processorConnected'
  /\ audioContextRef[i] \notin inputCtxOpen'
  /\ outputAudioContextRef[i] \notin outputCtxOpen'
  /\ liveSessionRef[i] # 0 => conn'[liveSessionRef[i]] # "open"

\* the resources attempt k acquired are released and no ref of its instance
\* holds them
AttemptReleased(k) ==
  /\ k \notin micLive \cup sourceConnected \cup processorConnected
  /\ k \notin inputCtxOpen \cup outputCtxOpen
  /\ mediaStreamRef[owner[k]] # k /\ mediaStreamSourceRef[owner[k]] # k
  /\ scriptProcessorRef[owner[k]] # k /\ audioContextRef[owner[k]] # k
  /\ outputAudioContextRef[owner[k]] # k

\* C1: Turn finalization.  When the handler of the mounted instance handles
\* a turn-complete while the input buffer holds a text I and the output
\* buffer a text O, neither blank, the message log afterwards ends with a
\* USER message I immediately followed by a MODEL message O, and both
\* buffers are empty.
C1_TurnFinalization ==
  [][(/\ last'.op = "handleLiveMessage"
      /\ Mounted(last'.i)
      /\ TurnCompleteOnly(last'.m)
      /\ trim(currentInputTranscription)
      /\ trim(currentOutputTranscription))
     => /\ EndsWith(chatMessages',
                    <<[role |-> USER, content |-> currentInputTranscription],
                      [role |-> MODEL, content |-> currentOutputTranscription]>>)
        /\ currentInputTranscription' = <<>>
        /\ currentOutputTranscription' = <<>>]_vars

\* C2: When onclose fires for a closure the user did not request (the
\* connection was open) while the session is the active one of the mounted
\* instance (isRecording, the handle installed), teardown runs: afterwards
\* microphone, capture nodes and both contexts are released, every ref is
\* cleared and isRecording is false.
C2_UnexpectedCloseTearsDown ==
  [][(/\ last'.op = "onclose"
      /\ conn[last'.k] = "open"
      /\ Mounted(last'.i)
      /\ isRecording
      /\ liveSessionRef[inst] = last'.k)
     => /\ Releases(inst)
        /\ NothingHeldAfter(inst)
        /\ isRecording' = FALSE]_vars

\* C3: After a step in which startRecording of the mounted instance failed
\* (getUserMedia rejected, a constructor threw, startLiveSession rejected)
\* every resource the attempt acquired is released and its handle cleared,
\* isRecording is false and the start error is the one shown.
C3_FailedStartReleases ==
  (/\ last.op \in {"getUserMediaRejected", "getUserMediaResolved",
                   "startLiveSessionRejected"}
   /\ startPc[last.k] = "failed"
   /\ Mounted(last.i))
  => /\ AttemptReleased(last.k)
     /\ ~isRecording
     /\ error = "start"

\* C4: When stopRecording ran while the open of attempt k was pending, the
\* completion of that open is discarded: it installs no session handle, does
\* not change isRecording and leaves no open session behind.
C4_LateOpenDiscarded ==
  [][(/\ last'.op = "startLiveSessionResolved"
      /\ last'.k \in abandoned)
     => /\ liveSessionRef' = liveSessionRef
        /\ isRecording' = isRecording
        /\ conn'[last'.k] # "open"]_vars

\* C5: At most one session that has been opened and has neither been closed
\* nor asked to close exists.
C5_AtMostOneLiveSession ==
  Cardinality({k \in Attempts : conn[k] = "open"}) <= 1

\* the variables stopRecording writes
stopWrites ==
  <<refVars, micLive, sourceConnected, processorConnected, inputCtxOpen,
    outputCtxOpen, stoppedSources, conn, isRecording, isLoading>>

\* C6: Idempotent teardown.  After stopRecording of an instance, from any
\* state (nothing ever started, a start failed partway, a session active),
\* no ref of the instance holds a stream, node, context or session and what
\* the refs held is released; a stopRecording that directly follows a
\* stopRecording of the same instance changes nothing stopRecording writes.
C6_IdempotentTeardown ==
  [][last'.op \in StopOps
     => /\ NothingHeldAfter(last'.i)
        /\ Releases(last'.i)
        /\ last'.again => UNCHANGED stopWrites]_vars

\* C6 witness: stopRecording ran twice in a row on an instance one of whose
\* attempts had acquired the microphone.
C6_Witness ==
  /\ last.op \in StopOps /\ last.again
  /\ \E k \in Attempts : owner[k] = last.i /\ startPc[k] \in {"awaitOpen", "done", "failed"}
  /\ NothingHeld(last.i)

\* C7: A user stop during an active session (isRecording, the installed
\* session open) releases everything: microphone tracks stopped, capture
\* nodes detached, the session closed, every source of ActiveSources
\* stopped, ActiveSources empty and ScheduleClock 0, both contexts closed,
\* every ref cleared and isRecording false.
C7_UserStopReleasesAll ==
  [][(/\ last'.op = "clickStop"
      /\ isRecording
      /\ liveSessionRef[inst] # 0
      /\ conn[liveSessionRef[inst]] = "open")
     => /\ Releases(inst)
        /\ NothingHeldAfter(inst)
        /\ playbackSourcesRef[inst] \subseteq stoppedSources'
        /\ playbackSourcesRef'[inst] = {}
        /\ nextStartTimeRef'[inst] = 0
        /\ isRecording' = FALSE]_vars

\* C8: When onerror of a session fires, its instance is torn down by
\* stopRecording: every ref of the instance is cleared and what the refs
\* held (microphone, capture nodes, both contexts, the session) is released;
\* if the instance is mounted the session error is the one shown and
\* isRecording is false.
C8_ErrorTearsDown ==
  [][last'.op = "onerror"
     => /\ NothingHeldAfter(last'.i)
        /\ Releases(last'.i)
        /\ Mounted(last'.i) => error' = "session" /\ isRecording' = FALSE]_vars

\* C8 witness: onerror of the active session of the mounted instance has
\* just run, and the microphone and contexts of that session are released.
C8_Witness ==
  /\ last.op = "onerror" /\ Mounted(last.i)
  /\ conn[last.k] = "closing"
  /\ AttemptReleased(last.k)
  /\ error = "session" /\ ~isRecording

\* C9: Interruption discards the partial transcript.  When the handler of
\* the mounted instance handles an interrupted message that carries no
\* turn-complete while a transcription buffer holds text, the message log is
\* unchanged and both buffers are empty afterwards.
C9_InterruptionDiscards ==
  [][(/\ last'.op = "handleLiveMessage"
      /\ Mounted(last'.i)
      /\ last'.m.interrupted /\ ~last'.m.turnComplete
      /\ (currentInputTranscription # <<>> \/ currentOutputTranscription # <<>>))
     => /\ chatMessages' = chatMessages
        /\ currentInputTranscription' = <<>>
        /\ currentOutputTranscription' = <<>>]_vars

\* C9 witness: an interrupted message was handled while a buffer held text.
C9_Witness ==
  /\ last.op = "handleLiveMessage" /\ Mounted(last.i)
  /\ last.m.interrupted /\ ~last.m.turnComplete
  /\ last.hadText
  /\ currentInputTranscription = <<>> /\ currentOutputTranscription = <<>>

\* C10: Interruption resets the clock.  The step that handles an interrupted
\* message stops every source of ActiveSources, empties ActiveSources and
\* sets ScheduleClock to 0; and the next source the instance schedules after
\* it starts at the output clock's time its enqueue read.
C10_InterruptionResetsClock ==
  [][/\ (last'.op = "handleLiveMessage" /\ last'.m.interrupted)
        => /\ playbackSourcesRef[last'.i] \subseteq stoppedSources'
           /\ playbackSourcesRef'[last'.i] = {}
           /\ nextStartTimeRef'[last'.i] = 0
     /\ (/\ Len(sources') = Len(sources) + 1
         /\ interruption.inst = sources'[Len(sources')].inst
         /\ interruption.len = Len(sources))
        => sources'[Len(sources')].when = sources'[Len(sources')].now]_vars

\* the step schedules a new source (lines 62-71 ran)
Schedules == Len(sources') = Len(sources) + 1

\* the source the step schedules and the source scheduled before it
newSource == sources'[Len(sources')]
prevSource == sources[Len(sources)]

\* The step schedules a source on the open output context on which the
\* source before it was scheduled, and no interruption was handled since
\* that one was scheduled.
SchedulesNextOfRun ==
  /\ Schedules
  /\ Len(sources) >= 1
  /\ newSource.ctx = prevSource.ctx
  /\ newSource.ctx \in outputCtxOpen
  /\ interruption.inst # 0 => interruption.len < Len(sources)

\* C11: Gapless scheduling.  A segment whose chunk arrived before the
\* segment scheduled before it finished playing is scheduled to start at
\* that segment's scheduled start plus that segment's duration (so a third
\* starts at the first's start plus d1 + d2), whatever the arrival times.
C11_GaplessScheduling ==
  [][(/\ SchedulesNextOfRun
      /\ newSource.now < playsUntil(Len(sources)))
     => newSource.when = prevSource.when + prevSource.dur]_vars

\* C12: No two scheduled segments overlap.  A segment scheduled on the
\* output context of the segment scheduled before it, with no interruption
\* or stop handled in between, starts playing no earlier than that segment
\* stops playing: the playing intervals are disjoint and in enqueue order,
\* also when the clock advanced while a decode was pending.
C12_NoOverlap ==
  [][SchedulesNextOfRun
     => Max(newSource.when, newSource.at) >= playsUntil(Len(sources))]_vars

\* the handlers of session k that are suspended at the await of
\* decodeAudioData
Suspended(k) == {n \in 1..Len(pendingDecodes) : pendingDecodes[n].k = k}

\* what a handler of inbound events writes
handlerWrites ==
  <<chatMessages, currentInputTranscription, currentOutputTranscription,
    nextStartTimeRef, playbackSourcesRef, stoppedSources>>

\* C13: Inbound events are handled strictly in arrival order with no
\* concurrent handler execution: while the handler of an earlier event of
\* a session is still suspended on its decode, the delivery of a later event
\* of that session has no state effect (no scheduling-clock update, no
\* transcription delta, no finalizing or clearing of the buffers).
C13_HandlersInArrivalOrder ==
  [][(/\ delivered' = delivered + 1
      /\ Suspended(last'.k) # {})
     => UNCHANGED handlerWrites]_vars

\* the step resumes the handler whose decode was pending the longest
Resumes == pendingDecodes # <<>> /\ pendingDecodes' = Tail(pendingDecodes)

\* C14: When stopRecording ran while the decode of an audio chunk was
\* pending (the output context the handler captured has been closed), the
\* completion of that decode is discarded: no segment is scheduled for it,
\* ActiveSources and ScheduleClock stay as teardown left them.
C14_LateDecodeDiscarded ==
  [][(/\ Resumes
      /\ Head(pendingDecodes).ctx \notin outputCtxOpen)
     => UNCHANGED <<sources, playbackSourcesRef, nextStartTimeRef>>]_vars

\* an audio chunk whose byte length is not a multiple of numChannels * 2
Malformed(m) ==
  m.audio # 0 /\ m.audio % (AUDIO_NUM_CHANNELS * BYTES_PER_SAMPLE) # 0

\* C15: Malformed chunk containment.  When the decode of an audio chunk
\* whose byte length is not divisible by numChannels * 2 settles, nothing is
\* scheduled for it and nothing is torn down: the state, the refs, the
\* connection and the playback set and clock are as before, so the handlers
\* of later events find the session as a well-formed history left it.
C15_MalformedContained ==
  [][(/\ Resumes
      /\ Malformed(Head(pendingDecodes).m))
     => UNCHANGED <<uiVars, refVars, attVars, conn, errored, micLive,
                    sourceConnected, processorConnected, inputCtxOpen,
                    outputCtxOpen, sources, stoppedSources, endedSources>>]_vars

\* C15 witness: the handler of a malformed chunk has run to its end in a
\* session that is still open, installed and recording, with nothing
\* scheduled.
C15_Witness ==
  /\ last.op = "handleLiveMessage" /\ Malformed(last.m)
  /\ conn[last.k] = "open" /\ liveSessionRef[last.i] = last.k
  /\ isRecording /\ outputAudioContextRef[last.i] \in outputCtxOpen
  /\ sources = <<>>

\* the distance between two samples
dist(a, b) == IF a >= b THEN a - b ELSE b - a

\* C16: Round-trip codec.  For every frame x of samples in [-1, 1], both
\* ends included, decodeAudioData(decode(createBlob(x).data)) with one
\* channel has the length of x and each of its samples is within 1/32768
\* of the corresponding sample of x.
C16_RoundTrip ==
  (callIn.fn = "createBlob" /\ callOut # <<>>)
  => /\ Len(callOut[1]) = Len(callIn.data)
     /\ \A i \in 1..Len(callIn.data) :
          dist(callOut[1][i], callIn.data[i]) <= STEP

\* the unsigned little-endian number in the n bytes of w from offset o on
\* (offsets count from 0)
uintAt(w, o, n) ==
  LET RECURSIVE value(_)
      value(j) == IF j > n THEN 0 ELSE w[o + j] + 256 * value(j + 1)
  IN value(1)

\* the four bytes of w from offset o on
tagAt(w, o) == SubSeq(w, o + 1, o + 4)

\* C17: WAV header exactness.  For a PCM payload of n bytes, sample rate r
\* and c channels convertPcmToWavBlob yields 44 + n bytes: 'RIFF', n + 36,
\* 'WAVE', 'fmt ', 16, format 1, c, r, byte rate r * c * 2, block align
\* c * 2, 16 bits per sample, 'data' at bytes 36-39, n at bytes 40-43 (all
\* numbers little-endian), then the payload unchanged; for n = 2, r = 24000,
\* c = 1 that is 46 bytes with a declared data length of 2.
C17_WavHeaderExact ==
  (callIn.fn = "convertPcmToWavBlob" /\ callOut # <<>>)
  => LET w == callOut[1]
         n == Len(callIn.pcmBytes)
         r == callIn.sampleRate
         c == callIn.numChannels
     IN /\ Len(w) = 44 + n
        /\ tagAt(w, 0) = <<82, 73, 70, 70>>
        /\ uintAt(w, 4, 4) = n + 36
        /\ tagAt(w, 8) = <<87, 65, 86, 69>>
        /\ tagAt(w, 12) = <<102, 109, 116, 32>>
        /\ uintAt(w, 16, 4) = 16
        /\ uintAt(w, 20, 2) = 1
        /\ uintAt(w, 22, 2) = c
        /\ uintAt(w, 24, 4) = r
        /\ uintAt(w, 28, 4) = r * c * 2
        /\ uintAt(w, 32, 2) = c * 2
        /\ uintAt(w, 34, 2) = 16
        /\ tagAt(w, 36) = <<100, 97, 116, 97>>
        /\ uintAt(w, 40, 4) = n
        /\ SubSeq(w, 45, 44 + n) = callIn.pcmBytes
        /\ (n = 2 /\ r = 24000 /\ c = 1) => Len(w) = 46 /\ uintAt(w, 40, 4) = 2

\* C17 witness: a 2-byte payload at 24000 Hz, mono, has been converted to
\* 46 bytes.
C17_Witness ==
  /\ callIn.fn = "convertPcmToWavBlob" /\ callOut # <<>>
  /\ Len(callIn.pcmBytes) = 2 /\ callIn.sampleRate = 24000
  /\ callIn.numChannels = 1
  /\ Len(callOut[1]) = 46

\* C18: ScheduleClock never decreases from one step to the next, except
\* that it is set to zero by stopRecording and by the handling of an
\* interrupted event of its instance, and by nothing else.
C18_ClockMonotone ==
  [][\A i \in Instances :
       nextStartTimeRef'[i] < nextStartTimeRef[i]
       => /\ nextStartTimeRef'[i] = 0
          /\ last'.i = i
          /\ \/ last'.op \in StopOps
             \/ last'.op = "handleLiveMessage" /\ last'.m.interrupted]_vars

\* C18 witness: the clock had advanced past zero when an interrupted event
\* was handled and is zero after it.
C18_Witness ==
  /\ last.op = "handleLiveMessage" /\ last.m.interrupted
  /\ interruption.inst = last.i /\ interruption.clock > 0
  /\ nextStartTimeRef[last.i] = 0

\* C19: Outbound frames.  The frames transmitted are a subsequence of the
\* captured frames in capture order, none twice; a frame is transmitted
\* only in the step that captured it, and a frame captured while the ref
\* holds no session handle is dropped: it is not transmitted then and,
\* nothing being queued, never later.
C19_OutboundFrames ==
  [][/\ \A a, b \in 1..Len(sent') :
          a < b => sent'[a].frame < sent'[b].frame
     /\ \A a \in 1..Len(sent') : sent'[a].frame \in 1..captured'
     /\ sent' # sent
        => /\ last'.op = "onaudioprocess"
           /\ captured' = captured + 1
           /\ liveSessionRef[last'.i] # 0
           /\ sent' = Append(sent, [frame |-> captured',
                                    session |-> liveSessionRef[last'.i]])]_vars

\* C19 witness: frames were captured before a session handle was installed
\* and dropped, and a frame captured after it has been transmitted.
C19_Witness ==
  /\ last.op = "onaudioprocess"
  /\ sent # <<>> /\ sent[1].frame > 1
  /\ sent[Len(sent)].frame = captured

\* the invocations of startRecording of instance i that have not returned
InProgress(i) ==
  {k \in Attempts : owner[k] = i /\ startPc[k] \in {"awaitMic", "awaitOpen"}}

\* the sessions of instance i that are being opened or are open
Active(i) ==
  {k \in Attempts : owner[k] = i /\ conn[k] \in {"connecting", "open"}}

\* C20: startRecording is guarded against concurrent invocation: it runs
\* (and goes on to acquire a microphone stream, a pair of audio contexts
\* and a session) only when no other invocation of the instance is still in
\* progress and no session of the instance is being opened or open.
C20_StartGuarded ==
  [][last'.op = "clickStart"
     => InProgress(inst) = {} /\ Active(inst) = {}]_vars


\* ---------------------------------------------------------------- C21 ----
\* the close stopRecording asked for: the connection is closing when its
\* close event arrives
RequestedClose(k) == conn[k] = "closing"

\* C21: a close event is surfaced as an error if and only if the closure was
\* not requested by the caller: the close event of a session whose instance
\* is mounted sets the close error when stopRecording had not asked for the
\* close, and leaves the error alone when it had.
C21_CloseSurfacedIffUnrequested ==
  [][(last'.op = "onclose" /\ Mounted(owner[last'.k]))
     => IF RequestedClose(last'.k) THEN error' = error
        ELSE error' = "close"]_vars

\* ---------------------------------------------------------------- C22 ----
\* a value of type AnalysisOutput: an object whose analysisText is a string
\* and whose timeframes is a sequence
IsAnalysisOutput(v) ==
  /\ v.type = "object"
  /\ member(v, "analysisText").type = "string"
  /\ member(v, "timeframes").type = "array"

\* the text of the response is JSON of the {analysisText, timeframes} schema
MatchesSchema(response) ==
  /\ response.hasText
  /\ JSONparse(response.text).ok
  /\ IsAnalysisOutput(JSONparse(response.text).val)

\* C22: on schema-parse failure (the response text is not valid JSON, or is
\* JSON that does not match the {analysisText, timeframes} schema)
\* analyzeVideoTranscriptForInfo returns the raw response text as
\* analysisText with an empty timeframes sequence, so every value it returns
\* has a string analysisText and a sequence timeframes.
C22_AnalysisFallback ==
  (callIn.fn = "analyzeVideoTranscriptForInfo" /\ callOut # <<>>)
  => /\ IsAnalysisOutput(callOut[1])
     /\ ~MatchesSchema(callIn.response)
          => /\ member(callOut[1], "timeframes") = Array(<<>>)
             /\ \E n \in 0..Len(member(callOut[1], "analysisText").s) :
                  SubSeq(member(callOut[1], "analysisText").s, n + 1,
                         Len(member(callOut[1], "analysisText").s))
                    = IF callIn.response.hasText THEN callIn.response.text
                      ELSE <<UNDEFINED>>

\* ---------------------------------------------------------------- C23 ----
\* the extension of a file name: the name from its last dot on, empty when
\* the name has no dot
Extension(name) ==
  LET dots == {n \in 1..Len(name) : name[n] = "."} IN
  IF dots = {} THEN <<>>
  ELSE SubSeq(name, CHOOSE n \in dots : \A o \in dots : o <= n, Len(name))

HasTextExtension(name) ==
  Extension(name) \in {<<".", "s", "r", "t">>, <<".", "t", "x", "t">>}

\* C23: a selected file is read and passed to onFileRead, with its content
\* and its name, if and only if its name has extension .srt or .txt: such a
\* file is handed to the reader without a validation message, and what the
\* reader loads is passed to onFileRead; for any other extension a
\* validation message is shown, no read is started, and the loaded
\* transcript, the generated output and the narration are unchanged.
C23_FileValidation ==
  [][/\ (event'.op = "handleFileChange" /\ event'.file # None)
          => IF HasTextExtension(event'.file[1].name)
             THEN /\ reader' = event'.file
                  /\ loading'
                  /\ uploadError' = "null"
             ELSE /\ uploadError' = "Invalid file type."
                  /\ UNCHANGED <<reader, loading, transcriptContent,
                                 transcriptFileName, generatedOutput,
                                 audioPlayback>>
     /\ event'.op = "reader.onload"
          => /\ HasTextExtension(reader[1].name)
             /\ transcriptContent' = Some(reader[1].content)
             /\ transcriptFileName' = Some(reader[1].name)
     /\ <<transcriptContent, transcriptFileName>>'
           # <<transcriptContent, transcriptFileName>>
          => event'.op = "reader.onload"]_vars

\* C23 witness: a file of another extension has been rejected while a
\* transcript, a generated output and a narration were loaded.
C23_Witness ==
  /\ event.op = "handleFileChange" /\ event.file # None
  /\ ~HasTextExtension(event.file[1].name)
  /\ uploadError = "Invalid file type."
  /\ transcriptContent # None /\ generatedOutput # None /\ audioPlayback # None

HungOpen ==
  \E k \in Attempts :
    /\ Mounted(owner[k])
    /\ startPc[k] = "awaitOpen"
    /\ conn[k] = "connecting"
    /\ k \notin errored

\* C25: a hung connection can be resolved by explicit user stop: in every
\* state where the open of the session is pending, the stop action of the
\* user is enabled (and taking it leaves the controller neither loading nor
\* recording).
C25_StopResolvesHungOpen ==
  HungOpen => ENABLED clickStop

\* ---------------------------------------------------------------- C26 ----
\* the step is a turn-complete event that appends two messages to the log
AppendsBoth ==
  /\ last'.op = "handleLiveMessage" /\ last'.m.turnComplete
  /\ Len(chatMessages') = Len(chatMessages) + 2
  /\ SubSeq(chatMessages', 1, Len(chatMessages)) = chatMessages

\* C26: turn-complete ordering.  Whenever one turn-complete event appends
\* both a USER and a MODEL message, the USER message is appended immediately
\* before the MODEL message, whichever buffer filled first.
C26_UserBeforeModel ==
  [][AppendsBoth
     => /\ chatMessages'[Len(chatMessages) + 1].role = USER
        /\ chatMessages'[Len(chatMessages) + 2].role = MODEL]_vars

\* C26 witness: a turn-complete event has appended two messages, the
\* USER one before the MODEL one.
C26_Witness ==
  /\ last.op = "handleLiveMessage" /\ last.m.turnComplete
  /\ Len(chatMessages) >= 2
  /\ chatMessages[Len(chatMessages) - 1].role = USER
  /\ chatMessages[Len(chatMessages)].role = MODEL

\* ---------------------------------------------------------------- C27 ----
\* C27: every transcription delta is appended to its corresponding buffer.
\* For every inbound message handled by the mounted instance that neither
\* completes a turn nor interrupts, the input buffer afterwards is the
\* input buffer before followed by the input delta of the message, and the
\* output buffer likewise with the output delta, also when the message
\* carries both deltas.
C27_DeltasAppended ==
  [][(/\ last'.op = "handleLiveMessage"
      /\ Mounted(last'.i)
      /\ ~last'.m.turnComplete /\ ~last'.m.interrupted)
     => /\ currentInputTranscription'
             = currentInputTranscription \o last'.m.inputTranscription
        /\ currentOutputTranscription'
             = currentOutputTranscription \o last'.m.outputTranscription]_vars

\* ---------------------------------------------------------------- C28 ----
\* the step is an onaudioprocess whose send fails
FailedSend ==
  /\ last'.op = "onaudioprocess"
  /\ handedOver(liveSessionRef[last'.i])
  /\ rejected(liveSessionRef[last'.i])

\* C28: a failed frame send is non-fatal.  When the send of a captured
\* frame fails because the session is not open, nothing is torn down and no
\* lifecycle state changes: isRecording, the other React state, the resource
\* handles, the nodes and contexts, the connections and the frames sent are
\* as before, so the script processor stays connected with the handle in
\* place and the next frame is attempted in the same way.
C28_FailedSendAbsorbed ==
  [][FailedSend => UNCHANGED <<uiVars, refVars, envVars, sent>>]_vars

\* C28 witness: two frames in a row were handed to a session whose
\* connection is closed, while the component keeps recording.
C28_Witness ==
  /\ last.op = "onaudioprocess"
  /\ captured >= 2 /\ sent = <<>>
  /\ liveSessionRef[last.i] # 0 /\ conn[liveSessionRef[last.i]] = "closed"
  /\ isRecording
  /\ last.k \in processorConnected \cap sourceConnected \cap inputCtxOpen

\* ---------------------------------------------------------------- C29 ----
\* C29: stopRecording resets all transient state.  After stopRecording has
\* run for the mounted instance (from the stop button or from onerror), both
\* transcription buffers are empty, the set of active sources is empty, the
\* schedule clock is 0 and isRecording and isLoading are false.
C29_StopResetsTransientState ==
  [][(last'.op \in {"clickStop", "onerror"} /\ Mounted(last'.i))
     => /\ currentInputTranscription' = <<>>
        /\ currentOutputTranscription' = <<>>
        /\ playbackSourcesRef'[last'.i] = {}
        /\ nextStartTimeRef'[last'.i] = 0
        /\ ~isRecording' /\ ~isLoading']_vars

\* ---------------------------------------------------------------- C30 ----
\* C30: the conversation log is append-only.  No operation (inbound event,
\* interruption, stopRecording, startRecording of a new session) mutates or
\* removes a message once appended: across every step the log before is a
\* prefix of the log after.
C30_LogAppendOnly ==
  [][/\ Len(chatMessages') >= Len(chatMessages)
     /\ SubSeq(chatMessages', 1, Len(chatMessages)) = chatMessages]_vars

\* ---------------------------------------------------------------- C31 ----
\* the sources that have been scheduled and have neither played to their
\* end nor been stopped
Sounding ==
  {s \in 1..Len(sources) : s \notin endedSources \cup stoppedSources}

\* C31: ActiveSources only ever contains handles of segments that have been
\* scheduled and have neither finished naturally nor been forcibly stopped:
\* in every state the set of every instance holds only such sources; a
\* handle enters the set only in the step that schedules its segment, and a
\* source that ends or is stopped has left the set after that step.
C31_ActiveSourcesSounding ==
  /\ [](\A i \in Instances : playbackSourcesRef[i] \subseteq Sounding)
  /\ [][\A i \in Instances :
          /\ playbackSourcesRef'[i] \ playbackSourcesRef[i]
               \subseteq (1..Len(sources')) \ (1..Len(sources))
          /\ (endedSources' \cup stoppedSources')
               \cap playbackSourcesRef'[i] = {}]_vars

\* C31 witness: of two scheduled sources one has played to its end and left
\* the set while the other is still in it.
C31_Witness ==
  \E i \in Instances, s, t \in 1..Len(sources) :
    /\ s \in endedSources /\ s \notin playbackSourcesRef[i]
    /\ sources[s].inst = i
    /\ t \in playbackSourcesRef[i]

\* ---------------------------------------------------------------- C32 ----
\* Math.round of n / d: the nearest integer, halves upwards
round(n, d) == (2 * n + d) \div (2 * d)

\* C32: createBlob quantizes each sample s to the signed 16-bit integer
\* round(s * 32768) without clamping (a product outside [-32768, 32767]
\* wraps around modulo 2^16), packs the integers little-endian and tags the
\* chunk audio/pcm;rate=16000.
C32_QuantizeRound ==
  (callIn.fn = "createBlob" /\ callOut # <<>>)
  => LET bytes == decode(createBlob(callIn.data)) IN
     /\ Len(bytes) = 2 * Len(callIn.data)
     /\ \A i \in 1..Len(callIn.data) :
          LET u == ToInt16(round(callIn.data[i], STEP)) % 65536 IN
          /\ bytes[2 * i - 1] = u % 256
          /\ bytes[2 * i] = u \div 256
     /\ mimeTypeRate = 16000

\* ---------------------------------------------------------------- C33 ----
\* the last step of the live chat was a failure of startRecording of the
\* mounted instance: its catch and finally blocks ran
StartFailed ==
  /\ last.op \in {"getUserMediaRejected", "getUserMediaResolved",
                  "startLiveSessionRejected"}
  /\ startPc[last.k] = "failed"
  /\ Mounted(last.i)

Accumulated(role, m) ==
  IF role = USER
  THEN {currentInputTranscription, appendInput(m, currentInputTranscription)}
  ELSE {currentOutputTranscription, appendOutput(m, currentOutputTranscription)}

\* C34: no cross-session contamination of the conversation log.  Every
\* message a session appends to the log has as content the text accumulated
\* from the transcription deltas received in that same session; text left
\* in a buffer when an earlier session was stopped does not appear in a
\* message of a later session.
C34_NoCrossSessionText ==
  [][(last'.op = "handleLiveMessage" /\ Mounted(last'.i))
     => \A j \in (Len(chatMessages) + 1)..Len(chatMessages') :
          chatMessages'[j].content
            \in Accumulated(chatMessages'[j].role, last'.m)]_vars

\* ---------------------------------------------------------------- C35 ----
\* the script processors of instance i whose onaudioprocess callback fires
\* and hands its frames to the session handle the instance has installed
Feeding(i) ==
  {p \in Attempts : /\ owner[p] = i
                    /\ p \in processorConnected \cap sourceConnected \cap inputCtxOpen
                    /\ handedOver(liveSessionRef[i])}

\* C35: at most one capture pipeline feeds the live session.  In every
\* reachable state, also after a failed start followed by a successful one,
\* at most one script-processor callback is connected and able to send
\* frames to the currently installed session handle.
C35_OnePipeline ==
  \A i \in Instances : Cardinality(Feeding(i)) <= 1

\* ---------------------------------------------------------------- C36 ----
\* no invocation of startRecording is between its first line and its end
NoStartInProgress ==
  \A k \in Attempts : startPc[k] \notin {"awaitMic", "awaitOpen"}

\* the mounted instance has an open session installed
SessionInstalled ==
  /\ liveSessionRef[inst] \in Attempts
  /\ conn[liveSessionRef[inst]] = "open"

\* C36: the isRecording flag agrees with the resources held.  In every
\* state where no start is in progress, isRecording is true if and only if
\* an open session handle is installed, and then the microphone stream and
\* both audio contexts are held; when isRecording is false none of the
\* microphone stream, the capture nodes, the audio contexts and the session
\* handle is held.
C36_RecordingAgreesWithResources ==
  NoStartInProgress =>
    /\ isRecording <=> SessionInstalled
    /\ isRecording =>
         /\ mediaStreamRef[inst] \in micLive
         /\ audioContextRef[inst] \in inputCtxOpen
         /\ outputAudioContextRef[inst] \in outputCtxOpen
    /\ ~isRecording =>
         /\ mediaStreamRef[inst] = 0
         /\ mediaStreamSourceRef[inst] = 0
         /\ scriptProcessorRef[inst] = 0
         /\ audioContextRef[inst] = 0
         /\ outputAudioContextRef[inst] = 0
         /\ liveSessionRef[inst] = 0

\* ---------------------------------------------------------------- C37 ----
\* C37: generated results belong to the loaded transcript.  In every
\* reachable state of the story generator a generatedOutput that is not
\* null was produced from the transcript that is loaded now, and a
\* narration audio that is not null was produced from the generatedOutput
\* that is held now, also when a new file is uploaded while a generation or
\* narration request is pending.
C37_ResultsOfLoadedTranscript ==
  /\ generatedOutput # None
       => transcriptContent # None /\ generatedOutput[1].of = transcriptContent[1]
  /\ audioPlayback # None
       => generatedOutput # None /\ audioPlayback[1].of = generatedOutput[1]

\* ---------------------------------------------------------------- C38 ----
SendOps == {"clickSend", "pressEnter"}
SettleOps == {"searchResolved", "searchRejected"}

\* the calls of the mounted instance that have not settled
InFlight == {q \in searches : q.inst = chatInst}

\* the log is a sequence of exchanges, the last of which may be open
Alternates(log) ==
  \A j \in 1..Len(log) : log[j].role = (IF j % 2 = 1 THEN USER ELSE MODEL)

====
